---- MODULE Spec2Model ----
(***************************************************************************)
(* Daily water-balance submodel of G'DAY (src/src/water_balance.py and     *)
(* src/src/utilities.py) as a state machine.                               *)
(*                                                                         *)
(* Arithmetic.  The program computes in floating point.  Here every real   *)
(* quantity is a fixed-point integer: the value v of a quantity with scale *)
(* S is the integer v*S.  A sum keeps the scale, a product multiplies the  *)
(* scales, and a division x / y is x \div y after the numerator has been   *)
(* brought to the scale the result needs.  The scale of each quantity is   *)
(* stated where it is introduced.  None is the empty tuple and a present   *)
(* optional value v is the tuple <<v>>.                                     *)
(*                                                                         *)
(* A function of the program that can raise returns a record whose field   *)
(* err is "" on normal return and the name of the Python exception         *)
(* otherwise.                                                              *)
(***************************************************************************)
EXTENDS Integers, Sequences, FiniteSets, TLC

VARIABLES
    control,    \* Control: trans_model, assim_model
    params,     \* Parameters
    state,      \* State: reservoirs, stress factors, lai, canht
    fluxes,     \* Fluxes of the current day
    met_data,   \* MetData: per-day series, atmos_press optional
    day,        \* number of daily steps taken so far (the next day index)
    call,       \* the last operation that ran and its arguments
    ret,        \* what the last operation returned
    outcome,    \* "" or the exception the last operation raised
    objects,    \* runs of several sites: the objects, by their identity
    instances,  \* runs of several sites: the WaterBalance instances
    sma         \* the SimpleMovingAverage instance: window_size, data

vars == <<control, params, state, fluxes, met_data, day, call, ret, outcome,
          objects, instances, sma>>

\* ------------------------------------------------------------------ bounds

\* Number of daily steps of a run.
MaxDay == 2

\* Number of days the full daily step is run for.
MaxBalanceDay == 2

\* ------------------------------------------------------------- fixed point

\* One millimetre of water (reservoirs, capacities, daily fluxes): scale 100.
MM == 100
\* One, for the dimensionless fractions wtfac_*, fractup_soil, intercep_frac.
FRAC == 100

None == <<>>
Some(v) == <<v>>

fabs(x) == IF x < 0 THEN -x ELSE x

\* x * 1E-14 rounded down, for x >= 0 (the tolerance of the float_* helpers;
\* 10^14 exceeds the integer range, so the division is done in two halves).
TimesTol(x) == (x \div 10000000) \div 10000000

\* --------------------------------------------------------------- utilities

\* arg1 < arg2 : arg2 - arg1 > fabs(arg1) * tol.  For an integer left side,
\* l > r holds exactly when l > floor(r).
float_lt(arg1, arg2) == arg2 - arg1 > TimesTol(fabs(arg1))

\* "arg1 <= arg2", implemented as float_lt.
float_le(arg1, arg2) == float_lt(arg1, arg2)

\* arg1 > arg2 : arg1 - arg2 > fabs(arg1) * tol.
float_gt(arg1, arg2) == arg1 - arg2 > TimesTol(fabs(arg1))

\* clip(value, min, max): min and max are optional.
clip_no_min(value, min, max) ==
    IF max # None /\ value > max[1] THEN max[1] ELSE value

clip(value, min, max) ==
    LET v1 == IF min # None /\ value < min[1] THEN min[1] ELSE value
    IN  IF max # None /\ v1 > max[1] THEN max[1] ELSE v1

\* ------------------------------------------------------- update_water_storage

\* update_water_storage with the drought test moved after the final clip.
update_water_storage_test_after_clip(p, s, f) ==
    LET trans_frac == p.fractup_soil * s.wtfac_topsoil
        topsoil    == clip(s.pawater_topsoil
                             + (f.erain
                                - ((f.transpiration * trans_frac) \div (FRAC * FRAC))
                                - f.soil_evap),
                           Some(0), Some(p.wcapac_topsoil))
        previous   == s.pawater_root
        raw        == s.pawater_root + (f.erain - f.transpiration - f.soil_evap)
        runoff     == IF raw > p.wcapac_root THEN raw - p.wcapac_root ELSE 0
        root       == clip(raw - runoff, Some(0), Some(p.wcapac_root))
        f2         == IF float_le(root, 0)
                      THEN [f EXCEPT !.transpiration = 0, !.soil_evap = 0,
                                     !.et = f.interception]
                      ELSE f
    IN  [state  |-> [s EXCEPT !.pawater_topsoil = topsoil,
                              !.pawater_root = root,
                              !.delta_sw_store = root - previous],
         fluxes |-> f2,
         runoff |-> runoff]

\* update_water_storage whose drought correction leaves et as it was summed.
update_water_storage_stale_et(p, s, f) ==
    LET trans_frac == p.fractup_soil * s.wtfac_topsoil
        topsoil    == clip(s.pawater_topsoil
                             + (f.erain
                                - ((f.transpiration * trans_frac) \div (FRAC * FRAC))
                                - f.soil_evap),
                           Some(0), Some(p.wcapac_topsoil))
        previous   == s.pawater_root
        raw        == s.pawater_root + (f.erain - f.transpiration - f.soil_evap)
        runoff     == IF raw > p.wcapac_root THEN raw - p.wcapac_root ELSE 0
        root1      == raw - runoff
        f2         == IF float_le(root1, 0)
                      THEN [f EXCEPT !.transpiration = 0, !.soil_evap = 0]
                      ELSE f
        root       == clip(root1, Some(0), Some(p.wcapac_root))
    IN  [state  |-> [s EXCEPT !.pawater_topsoil = topsoil,
                              !.pawater_root = root,
                              !.delta_sw_store = root - previous],
         fluxes |-> f2,
         runoff |-> runoff]

\* update_water_storage that takes delta_sw_store before the excess over the
\* capacity has been removed from the root zone.
update_water_storage_delta_before_runoff(p, s, f) ==
    LET trans_frac == p.fractup_soil * s.wtfac_topsoil
        topsoil    == clip(s.pawater_topsoil
                             + (f.erain
                                - ((f.transpiration * trans_frac) \div (FRAC * FRAC))
                                - f.soil_evap),
                           Some(0), Some(p.wcapac_topsoil))
        previous   == s.pawater_root
        raw        == s.pawater_root + (f.erain - f.transpiration - f.soil_evap)
        runoff     == IF raw > p.wcapac_root THEN raw - p.wcapac_root ELSE 0
        root1      == raw - runoff
        f2         == IF float_le(root1, 0)
                      THEN [f EXCEPT !.transpiration = 0, !.soil_evap = 0,
                                     !.et = f.interception]
                      ELSE f
        root       == clip(root1, Some(0), Some(p.wcapac_root))
    IN  [state  |-> [s EXCEPT !.pawater_topsoil = topsoil,
                              !.pawater_root = root,
                              !.delta_sw_store = (IF raw > 0 THEN raw ELSE 0) - previous],
         fluxes |-> f2,
         runoff |-> runoff]

\* update_water_storage that also resets the topsoil stress factor in State.
update_water_storage_resets_wtfac(p, s, f) ==
    LET trans_frac == p.fractup_soil * s.wtfac_topsoil
        topsoil    == clip(s.pawater_topsoil
                             + (f.erain
                                - ((f.transpiration * trans_frac) \div (FRAC * FRAC))
                                - f.soil_evap),
                           Some(0), Some(p.wcapac_topsoil))
        previous   == s.pawater_root
        raw        == s.pawater_root + (f.erain - f.transpiration - f.soil_evap)
        runoff     == IF raw > p.wcapac_root THEN raw - p.wcapac_root ELSE 0
        root1      == raw - runoff
        f2         == IF float_le(root1, 0)
                      THEN [f EXCEPT !.transpiration = 0, !.soil_evap = 0,
                                     !.et = f.interception]
                      ELSE f
        root       == clip(root1, Some(0), Some(p.wcapac_root))
    IN  [state  |-> [s EXCEPT !.pawater_topsoil = topsoil,
                              !.pawater_root = root,
                              !.delta_sw_store = root - previous,
                              !.wtfac_topsoil = FRAC],
         fluxes |-> f2,
         runoff |-> runoff]

\* update_water_storage that remembers the previous root-zone value only
\* after the raw update.
update_water_storage_previous_after_update(p, s, f) ==
    LET trans_frac == p.fractup_soil * s.wtfac_topsoil
        topsoil    == clip(s.pawater_topsoil
                             + (f.erain
                                - ((f.transpiration * trans_frac) \div (FRAC * FRAC))
                                - f.soil_evap),
                           Some(0), Some(p.wcapac_topsoil))
        raw        == s.pawater_root + (f.erain - f.transpiration - f.soil_evap)
        previous   == raw
        runoff     == IF raw > p.wcapac_root THEN raw - p.wcapac_root ELSE 0
        root1      == raw - runoff
        f2         == IF float_le(root1, 0)
                      THEN [f EXCEPT !.transpiration = 0, !.soil_evap = 0,
                                     !.et = f.interception]
                      ELSE f
        root       == clip(root1, Some(0), Some(p.wcapac_root))
    IN  [state  |-> [s EXCEPT !.pawater_topsoil = topsoil,
                              !.pawater_root = root,
                              !.delta_sw_store = root - previous],
         fluxes |-> f2,
         runoff |-> runoff]

\* update_water_storage that clips the root zone to its capacity without
\* accounting the excess as runoff.
update_water_storage_no_runoff(p, s, f) ==
    LET trans_frac == p.fractup_soil * s.wtfac_topsoil
        topsoil    == clip(s.pawater_topsoil
                             + (f.erain
                                - ((f.transpiration * trans_frac) \div (FRAC * FRAC))
                                - f.soil_evap),
                           Some(0), Some(p.wcapac_topsoil))
        previous   == s.pawater_root
        raw        == s.pawater_root + (f.erain - f.transpiration - f.soil_evap)
        f2         == IF float_le(raw, 0)
                      THEN [f EXCEPT !.transpiration = 0, !.soil_evap = 0,
                                     !.et = f.interception]
                      ELSE f
        root       == clip(raw, Some(0), Some(p.wcapac_root))
    IN  [state  |-> [s EXCEPT !.pawater_topsoil = topsoil,
                              !.pawater_root = root,
                              !.delta_sw_store = root - previous],
         fluxes |-> f2,
         runoff |-> 0]

\* update_water_storage that debits the topsoil with the whole transpiration.
update_water_storage_full_uptake(p, s, f) ==
    LET topsoil    == clip(s.pawater_topsoil
                             + (f.erain - f.transpiration - f.soil_evap),
                           Some(0), Some(p.wcapac_topsoil))
        previous   == s.pawater_root
        raw        == s.pawater_root + (f.erain - f.transpiration - f.soil_evap)
        runoff     == IF raw > p.wcapac_root THEN raw - p.wcapac_root ELSE 0
        root1      == raw - runoff
        f2         == IF float_le(root1, 0)
                      THEN [f EXCEPT !.transpiration = 0, !.soil_evap = 0,
                                     !.et = f.interception]
                      ELSE f
        root       == clip(root1, Some(0), Some(p.wcapac_root))
    IN  [state  |-> [s EXCEPT !.pawater_topsoil = topsoil,
                              !.pawater_root = root,
                              !.delta_sw_store = root - previous],
         fluxes |-> f2,
         runoff |-> runoff]

\* WaterBalance.update_water_storage: the new State, the corrected Fluxes and
\* the returned runoff.  p = params, s = state, f = fluxes.
update_water_storage(p, s, f) ==
    LET \* reduce transpiration from the top soil if it is dry (scale FRAC*FRAC)
        trans_frac == p.fractup_soil * s.wtfac_topsoil
        \* total soil layer
        topsoil0   == s.pawater_topsoil
                        + (f.erain
                           - ((f.transpiration * trans_frac) \div (FRAC * FRAC))
                           - f.soil_evap)
        topsoil    == clip(topsoil0, Some(0), Some(p.wcapac_topsoil))
        \* total root zone
        previous   == s.pawater_root
        raw        == s.pawater_root + (f.erain - f.transpiration - f.soil_evap)
        \* runoff, and the excess removed from the root zone
        over       == raw > p.wcapac_root
        runoff     == IF over THEN raw - p.wcapac_root ELSE 0
        root1      == IF over THEN raw - runoff ELSE raw
        \* drought correction of the day's fluxes
        f2         == IF float_le(root1, 0)
                      THEN [f EXCEPT !.transpiration = 0, !.soil_evap = 0,
                                     !.et = f.interception]
                      ELSE f
        root       == clip(root1, Some(0), Some(p.wcapac_root))
    IN  [state  |-> [s EXCEPT !.pawater_topsoil = topsoil,
                              !.pawater_root = root,
                              !.delta_sw_store = root - previous],
         fluxes |-> f2,
         runoff |-> runoff]

\* ------------------------------------------------------------ calc_infiltration

\* Leaf area index and max_intercep_lai: scale 10.
LAI == 10

min2(a, b) == IF a < b THEN a ELSE b
max2(a, b) == IF a > b THEN a ELSE b

\* calc_infiltration that never lets the effective rain go negative (the
\* formula the source keeps in a comment).
calc_infiltration_floor_erain(p, s, f, rain) ==
    IF s.lai > 0
    THEN IF p.max_intercep_lai = 0
         THEN [err |-> "ZeroDivisionError", fluxes |-> f]
         ELSE LET i == (rain * p.intercep_frac
                          * min2(FRAC, (s.lai * FRAC) \div p.max_intercep_lai))
                       \div (FRAC * FRAC)
              IN  [err |-> "",
                   fluxes |-> [f EXCEPT !.interception = i,
                                        !.erain = max2(0, rain - i)]]
    ELSE [err |-> "",
          fluxes |-> [f EXCEPT !.erain = max2(0, rain), !.interception = 0]]

\* WaterBalance.calc_infiltration(rain): writes fluxes.interception and
\* fluxes.erain.  rain in mm (scale MM).
calc_infiltration(p, s, f, rain) ==
    IF s.lai > 0
    THEN IF p.max_intercep_lai = 0
         THEN [err |-> "ZeroDivisionError", fluxes |-> f]
         ELSE LET \* min(1.0, lai / max_intercep_lai), scale FRAC
                  cover        == min2(FRAC, (s.lai * FRAC) \div p.max_intercep_lai)
                  interception == (rain * p.intercep_frac * cover)
                                    \div (FRAC * FRAC)
              IN  [err |-> "",
                   fluxes |-> [f EXCEPT !.interception = interception,
                                        !.erain = rain - interception]]
    ELSE [err |-> "",
          fluxes |-> [f EXCEPT !.erain = max2(0, rain), !.interception = 0]]

\* ----------------------------------------------------------- calc_transpiration

\* Carbon uptake gpp_* (gC m-2 per period) and wue (gC per mm): scale 100.
GC == 100

\* calc_transpiration with the test wue >= 0 in place of float_gt(wue, 0.0).
calc_transpiration_ge(f) ==
    IF f.wue >= 0
    THEN IF f.wue = 0
         THEN [err |-> "ZeroDivisionError", fluxes |-> f]
         ELSE [err |-> "",
               fluxes |-> [f EXCEPT !.transpiration = (f.gpp_gCm2 * MM) \div f.wue]]
    ELSE [err |-> "", fluxes |-> [f EXCEPT !.transpiration = 0]]

\* WaterBalance.calc_transpiration: transpiration from water-use efficiency
\* (mm/day, scale MM).  The quotient raises when wue is zero.
calc_transpiration(f) ==
    IF float_gt(f.wue, 0)
    THEN IF f.wue = 0
         THEN [err |-> "ZeroDivisionError", fluxes |-> f]
         ELSE [err |-> "",
               fluxes |-> [f EXCEPT !.transpiration = (f.gpp_gCm2 * MM) \div f.wue]]
    ELSE [err |-> "", fluxes |-> [f EXCEPT !.transpiration = 0]]

\* ------------------------------------------------------------ math functions

\* Scale of the arguments and results of exp and log.
ES == 10000

\* Number of terms of the series below.
SeriesTerms == 24

RECURSIVE ExpSeries(_, _)
ExpSeries(x, k) ==
    IF k > SeriesTerms THEN ES
    ELSE ES + (x * ExpSeries(x, k + 1)) \div (k * ES)

\* a * a at scale ES, for a >= 0 within the range of the numbers.
Square(a) ==
    IF a < 46340 THEN (a * a) \div ES ELSE (a \div 100) * (a \div 100)

\* Largest and smallest argument of exp whose result the numbers hold:
\* above ExpMax the result saturates, below ExpMin it underflows to 0.
ExpMax == 12 * ES
ExpMin == 0 - 20 * ES

\* math.exp: the sum of x^k / k!, as 1 + x (1 + x/2 (1 + x/3 (...))), for
\* |x| <= 2, and exp(x / 2) ** 2 beyond  (x and the result at scale ES).
RECURSIVE exp(_)
exp(x) ==
    IF x < ExpMin THEN 0
    ELSE IF x > ExpMax THEN exp(ExpMax)
    ELSE IF x > 2 * ES \/ x < 0 - 2 * ES THEN Square(exp(x \div 2))
    ELSE ExpSeries(x, 1)

RECURSIVE LogSeries(_, _)
LogSeries(z2, k) ==
    IF k > SeriesTerms THEN 0
    ELSE ES \div (2 * k - 1) + (z2 * LogSeries(z2, k + 1)) \div ES

\* (y - 1) / (y + 1), at scale ES.
LogArg(y) == ((y - ES) * ES) \div (y + ES)

\* math.log near 1: 2 * atanh(z) with z = (y - 1) / (y + 1), atanh as
\* z (1 + z^2/3 + z^4/5 + ...)  (y and the result at scale ES).
LogNear(y) ==
    (2 * LogArg(y) * LogSeries((LogArg(y) * LogArg(y)) \div ES, 1)) \div ES

\* log(2) at scale ES.
LN2 == 6931

\* math.log for y > 0: the series for y in [1/2, 2], and log(y / 2) + log(2)
\* or log(2 y) - log(2) outside  (y and the result at scale ES).
RECURSIVE log(_)
log(y) ==
    IF y > 2 * ES THEN log(y \div 2) + LN2
    ELSE IF 2 * y < ES THEN log(2 * y) - LN2
    ELSE LogNear(y)

\* x ** y for x >= 0, as exp(y * log(x)), with 0 ** y = 0 for y > 0 and
\* x ** 0 = 1  (all at scale ES).
pow(x, y) ==
    IF y = 0 THEN ES
    ELSE IF x = 0 THEN 0
    ELSE exp(((y \div 10) * log(x)) \div (ES \div 10))

RECURSIVE SqrtBetween(_, _, _)
SqrtBetween(n, lo, hi) ==
    IF hi - lo <= 1 THEN lo
    ELSE IF ((lo + hi) \div 2) * ((lo + hi) \div 2) <= n
    THEN SqrtBetween(n, (lo + hi) \div 2, hi)
    ELSE SqrtBetween(n, lo, (lo + hi) \div 2)

\* math.sqrt for x >= 0 (x and the result at scale 100), rounded down.
sqrt(x) == SqrtBetween(x * 100, 0, 46340)

\* ------------------------------------------------------------- PenmanMonteith
\*
\* Scales: temperature degC 1; pressure kPa 10; vpd kPa 100; wind m s-1 10;
\* canopy height m 10; hours 2 (so 60*60*hours seconds = 1800 * h);
\* net radiation MJ m-2 s-1 10^7; latent heat and air density 10^3;
\* slope and psychrometric constant kPa degC-1 10^4; conductances m s-1 10^5;
\* evaporation rates mm s-1 10^8; omega 10^4.

\* PenmanMonteith.__init__ defaults: cp = 1.013E-3 (scale 10^6), vk = 0.41
\* (scale 100), epsilon = 0.6222 (scale 10^4), zele_sea = 125.0 m (scale 1).
cp == 1013
vk == 41
epsilon == 6222
zele_sea == 125

\* 60.0 * 60.0 * hours, in seconds.
Seconds(hours) == (60 * 60 * hours) \div 2

\* calc_latent_heat_of_vapourisation: 2.501 - 0.002361 * tavg.
calc_latent_heat_of_vapourisation(tavg) == (2501000 - 2361 * tavg) \div 1000

\* calc_density_of_air: 1.292 - 0.00428 * tavg.
calc_density_of_air(tavg) == (129200 - 428 * tavg) \div 100

\* calc_pyschrometric_constant: (cp * press) / (epsilon * lambdax).
calc_pyschrometric_constant(lambdax, press) ==
    ((cp * press) * 100) \div ((epsilon * lambdax) \div 100)

\* calc_slope_of_saturation_vapour_pressure_curve (FAO eqn 13).
calc_slope_of_saturation_vapour_pressure_curve(tavg) ==
    LET t    == tavg * 10 + 2373                               \* scale 10
        arg1 == 4098 * ((6108 * exp((1727 * tavg * 1000) \div t)) \div ES)
        arg2 == t * t                                          \* scale 100
    IN  arg1 \div (arg2 \div 100)

\* calc_atmos_pressure (FAO eqn 7):
\* 101.3 * ((293.0 - 0.0065 * zele_sea) / 293.0) ** 5.26.
calc_atmos_pressure ==
    (1013 * pow((2930000 - 65 * zele_sea) \div 293, 52600)) \div ES

\* canopy_boundary_layer_conductance(wind, canht) of the evaporation model P
\* (dz0v_dh, displace_ratio, z0h_z0m at scale FRAC).  args is the tuple of the
\* positional arguments of the call: the method takes exactly two.
canopy_boundary_layer_conductance(P, args) ==
    IF Len(args) # 2 THEN [err |-> "TypeError", ga |-> 0]
    ELSE
    LET wind  == args[1]
        canht == args[2]
        z0m   == (P.dz0v_dh * canht) \div FRAC
        z0h   == (P.z0h_z0m * z0m) \div FRAC
        d     == (P.displace_ratio * canht) \div FRAC
        arg1  == vk * vk * wind                               \* scale 10^5
    IN  IF z0m = 0 THEN [err |-> "ZeroDivisionError", ga |-> 0]
        ELSE IF canht - d <= 0 THEN [err |-> "ValueError", ga |-> 0]
        ELSE IF z0h = 0 THEN [err |-> "ZeroDivisionError", ga |-> 0]
        ELSE LET arg2 == log(((canht - d) * ES) \div z0m)
                 arg3 == log(((canht - d) * ES) \div z0h)
                 \* arg1 / (arg2 * arg3)
                 Quotient(den) ==
                     IF den = 0 THEN [err |-> "ZeroDivisionError", ga |-> 0]
                     ELSE [err |-> "", ga |-> (arg1 * ES) \div den]
             IN  Quotient((arg2 * arg3) \div ES)

\* A variant that tests gs for being different from 0.
PenmanMonteith_calc_evaporation_nonzero_gs(P, vpd, wind, gs, net_rad, tavg, press, canht, ga) ==
    LET \* the body of the method once its local values are known
        Evaporation(lambdax, gamma, slope, rho, cbl) ==
            IF cbl.err # "" THEN [err |-> cbl.err, et |-> 0, omega |-> 0]
            ELSE IF float_gt(fabs(gs), 0)
            THEN IF gamma = 0
                 THEN [err |-> "ZeroDivisionError", et |-> 0, omega |-> 0]
                 ELSE
                 LET ga_gs == (cbl.ga * 100) \div gs           \* scale 100
                     e     == (slope * 100) \div gamma         \* scale 100
                     omega == ((e + 100) * 10000) \div (e + 100 + ga_gs)
                     \* scale 10^11
                     arg1  == (slope * net_rad)
                                + ((rho * cp * vpd) \div 100000) * cbl.ga
                     arg2  == slope + (gamma * (100 + ga_gs)) \div 100
                     et    == (((arg1 * 10) \div arg2) * 1000) \div lambdax
                 IN  [err |-> "", et |-> et, omega |-> omega]
            ELSE [err |-> "", et |-> 0, omega |-> 0]
        \* if press == None: press = self.calc_atmos_pressure()
        press1 == IF press = None THEN calc_atmos_pressure ELSE press[1]
    IN  Evaporation(
            calc_latent_heat_of_vapourisation(tavg),
            calc_pyschrometric_constant(
                calc_latent_heat_of_vapourisation(tavg), press1),
            calc_slope_of_saturation_vapour_pressure_curve(tavg),
            calc_density_of_air(tavg),
            IF ga = None
            THEN canopy_boundary_layer_conductance(P, <<wind, canht>>)
            ELSE [err |-> "", ga |-> ga[1]])

\* A variant that subtracts the term of the vapour pressure deficit.
PenmanMonteith_calc_evaporation_minus_vpd(P, vpd, wind, gs, net_rad, tavg, press, canht, ga) ==
    LET \* the body of the method once its local values are known
        Evaporation(lambdax, gamma, slope, rho, cbl) ==
            IF cbl.err # "" THEN [err |-> cbl.err, et |-> 0, omega |-> 0]
            ELSE IF float_gt(gs, 0)
            THEN IF gamma = 0
                 THEN [err |-> "ZeroDivisionError", et |-> 0, omega |-> 0]
                 ELSE
                 LET ga_gs == (cbl.ga * 100) \div gs           \* scale 100
                     e     == (slope * 100) \div gamma         \* scale 100
                     omega == ((e + 100) * 10000) \div (e + 100 + ga_gs)
                     \* scale 10^11
                     arg1  == (slope * net_rad)
                                - ((rho * cp * vpd) \div 100000) * cbl.ga
                     arg2  == slope + (gamma * (100 + ga_gs)) \div 100
                     et    == (((arg1 * 10) \div arg2) * 1000) \div lambdax
                 IN  [err |-> "", et |-> et, omega |-> omega]
            ELSE [err |-> "", et |-> 0, omega |-> 0]
        \* if press == None: press = self.calc_atmos_pressure()
        press1 == IF press = None THEN calc_atmos_pressure ELSE press[1]
    IN  Evaporation(
            calc_latent_heat_of_vapourisation(tavg),
            calc_pyschrometric_constant(
                calc_latent_heat_of_vapourisation(tavg), press1),
            calc_slope_of_saturation_vapour_pressure_curve(tavg),
            calc_density_of_air(tavg),
            IF ga = None
            THEN canopy_boundary_layer_conductance(P, <<wind, canht>>)
            ELSE [err |-> "", ga |-> ga[1]])

\* PenmanMonteith.calc_evaporation(vpd, wind, gs, net_rad, tavg, press,
\* canht, ga): evaporation rate and decoupling coefficient.  press and ga are
\* optional.
PenmanMonteith_calc_evaporation(P, vpd, wind, gs, net_rad, tavg, press, canht, ga) ==
    LET \* the body of the method once its local values are known
        Evaporation(lambdax, gamma, slope, rho, cbl) ==
            IF cbl.err # "" THEN [err |-> cbl.err, et |-> 0, omega |-> 0]
            ELSE IF float_gt(gs, 0)
            THEN IF gamma = 0
                 THEN [err |-> "ZeroDivisionError", et |-> 0, omega |-> 0]
                 ELSE
                 LET ga_gs == (cbl.ga * 100) \div gs           \* scale 100
                     e     == (slope * 100) \div gamma         \* scale 100
                     omega == ((e + 100) * 10000) \div (e + 100 + ga_gs)
                     \* scale 10^11
                     arg1  == (slope * net_rad)
                                + ((rho * cp * vpd) \div 100000) * cbl.ga
                     arg2  == slope + (gamma * (100 + ga_gs)) \div 100
                     et    == (((arg1 * 10) \div arg2) * 1000) \div lambdax
                 IN  [err |-> "", et |-> et, omega |-> omega]
            ELSE [err |-> "", et |-> 0, omega |-> 0]
        \* if press == None: press = self.calc_atmos_pressure()
        press1 == IF press = None THEN calc_atmos_pressure ELSE press[1]
    IN  Evaporation(
            calc_latent_heat_of_vapourisation(tavg),
            calc_pyschrometric_constant(
                calc_latent_heat_of_vapourisation(tavg), press1),
            calc_slope_of_saturation_vapour_pressure_curve(tavg),
            calc_density_of_air(tavg),
            IF ga = None
            THEN canopy_boundary_layer_conductance(P, <<wind, canht>>)
            ELSE [err |-> "", ga |-> ga[1]])

\* Penman.calc_evaporation(net_rad, tavg, press): equilibrium evaporation.
Penman_calc_evaporation(net_rad, tavg, press) ==
    LET Evaporation(lambdax, gamma, slope) ==
            (((slope * ES) \div (slope + gamma)) * net_rad) \div lambdax
        \* if press == None: press = self.calc_atmos_pressure()
        press1 == IF press = None THEN calc_atmos_pressure ELSE press[1]
    IN  Evaporation(
            calc_latent_heat_of_vapourisation(tavg),
            calc_pyschrometric_constant(
                calc_latent_heat_of_vapourisation(tavg), press1),
            calc_slope_of_saturation_vapour_pressure_curve(tavg))

\* A variant that leaves the net radiation out of the product.
PriestleyTaylor_calc_evaporation_no_rad(net_rad, tavg, press, pt_coeff) ==
    IF press = None THEN [err |-> "TypeError", et |-> 0]
    ELSE
    LET Evaporation(lambdax, gamma, slope) ==
            LET c == (pt_coeff * 100000) \div lambdax           \* scale 10^4
                w == (c * ((slope * ES) \div (slope + gamma))) \div ES
            IN  w
    IN  [err |-> "",
         et  |-> Evaporation(
                     calc_latent_heat_of_vapourisation(tavg),
                     calc_pyschrometric_constant(
                         calc_latent_heat_of_vapourisation(tavg), press[1]),
                     calc_slope_of_saturation_vapour_pressure_curve(tavg))]

\* PriestleyTaylor.calc_evaporation(net_rad, tavg, press, pt_coeff): press is
\* used as it comes; pt_coeff at scale 100.
PriestleyTaylor_calc_evaporation(net_rad, tavg, press, pt_coeff) ==
    IF press = None THEN [err |-> "TypeError", et |-> 0]
    ELSE
    LET Evaporation(lambdax, gamma, slope) ==
            LET c == (pt_coeff * 100000) \div lambdax           \* scale 10^4
                w == (c * ((slope * ES) \div (slope + gamma))) \div ES
            IN  (w * net_rad) \div 1000
    IN  [err |-> "",
         et  |-> Evaporation(
                     calc_latent_heat_of_vapourisation(tavg),
                     calc_pyschrometric_constant(
                         calc_latent_heat_of_vapourisation(tavg), press[1]),
                     calc_slope_of_saturation_vapour_pressure_curve(tavg))]

\* --------------------------------------------------------------- WaterBalance

\* Module constants: DEG_TO_KELVIN = 273.15 (scale 100), RGAS = 8.314
\* (scale 10^3), MM_TO_M = 0.001 (scale 10^3), WATT_HR_TO_MJ = 0.0036
\* (scale 10^4), MOL_TO_UMOL = 10^6, and GRAMS_C_TO_MOL_C = 1/12 as the gC in
\* one mol C.
DEG_TO_KELVIN == 27315
RGAS == 8314
MM_TO_M == 1
WATT_HR_TO_MJ == 36
MOL_TO_UMOL == 1000000
GRAMS_PER_MOL_C == 12

\* The evaporation model self.P built by WaterBalance.__init__.
PenmanMonteith_init(p) ==
    [dz0v_dh |-> p.dz0v_dh, displace_ratio |-> p.displace_ratio,
     z0h_z0m |-> p.z0h_z0m]

\* get_met_data(day): the day's values of the series; press is
\* met_data['atmos_press'][day] when the series is present, None otherwise.
get_met_data(met, d) ==
    [ca         |-> met.co2[d],
     tair_day   |-> met.tair[d],
     tair_am    |-> met.tam[d],
     tair_pm    |-> met.tpm[d],
     sw_rad_day |-> met.sw_rad[d],
     sw_rad_am  |-> met.sw_rad_am[d],
     sw_rad_pm  |-> met.sw_rad_pm[d],
     rain       |-> met.rain[d],
     vpd_day    |-> met.vpd_avg[d],
     vpd_am     |-> met.vpd_am[d],
     vpd_pm     |-> met.vpd_pm[d],
     wind_am    |-> met.wind_am[d],
     wind_pm    |-> met.wind_pm[d],
     wind_day   |-> met.wind[d],
     press      |-> IF met.atmos_press # None
                    THEN Some(met.atmos_press[1][d]) ELSE None]

\* calc_radiation(tavg, sw_rad, daylen): net radiation per second
\* (sw_rad in MJ m-2 d-1 at scale 100, albedo at scale FRAC, daylen > 0).
calc_radiation(p, tavg, sw_rad, daylen) ==
    LET net_lw  == ((1070 - 3 * tavg) * daylen * WATT_HR_TO_MJ) \div 2000
        net_rad == max2(0, (sw_rad * (FRAC - p.albedo)) \div FRAC - net_lw)
    IN  (net_rad * 100000) \div Seconds(daylen)

\* A variant that returns no conductance where the formula has no value.
calc_stomatal_conductance_no_raise(p, s, vpd, ca, daylen, gpp, press, temp) ==
    LET gpp_umol_m2_sec == (((gpp * MOL_TO_UMOL) \div GRAMS_PER_MOL_C)
                             \div Seconds(daylen))
        Conductance(root_vpd) ==
            IF root_vpd = 0 \/ ca = 0 THEN [err |-> "", gs |-> 0]
            ELSE LET arg1 == (16 * (100 + (p.g1 * s.wtfac_root * 100)
                                            \div (FRAC * root_vpd))) \div 10
                     arg2 == (gpp_umol_m2_sec * 10000) \div ca
                 IN  [err |-> "", gs |-> (arg1 * arg2) \div 10000]
    IN  Conductance(sqrt(max2(vpd, 0)))

\* calc_stomatal_conductance(vpd, ca, daylen, gpp, press, temp), in
\* mol m-2 s-1 at scale 10^4 (g1 at scale 100):
\* 1.6 * (1 + g1 * wtfac_root / sqrt(vpd)) * gpp_umol_m2_sec / ca.
calc_stomatal_conductance(p, s, vpd, ca, daylen, gpp, press, temp) ==
    LET gpp_umol_m2_sec == (((gpp * MOL_TO_UMOL) \div GRAMS_PER_MOL_C)
                             \div Seconds(daylen))              \* scale 100
        Conductance(root_vpd) ==
            IF root_vpd = 0 THEN [err |-> "ZeroDivisionError", gs |-> 0]
            ELSE IF ca = 0 THEN [err |-> "ZeroDivisionError", gs |-> 0]
            ELSE LET arg1 == (16 * (100 + (p.g1 * s.wtfac_root * 100)
                                            \div (FRAC * root_vpd))) \div 10
                     arg2 == (gpp_umol_m2_sec * 10000) \div ca  \* scale 10^6
                 IN  [err |-> "", gs |-> (arg1 * arg2) \div 10000]
    IN  IF vpd < 0 THEN [err |-> "ValueError", gs |-> 0]
        ELSE Conductance(sqrt(vpd))

\* const.MM_TO_M / (press / (const.RGAS * tk)), at scale 10^6 (tavg in degC).
MOL_SEC_2_M_PER_SEC(press, tavg) ==
    IF press = None THEN [err |-> "TypeError", v |-> 0]
    ELSE LET tk    == tavg * 100 + DEG_TO_KELVIN
             inner == (press[1] * 1000000) \div ((RGAS * tk) \div 10000)
         IN  IF inner = 0 THEN [err |-> "ZeroDivisionError", v |-> 0]
             ELSE [err |-> "", v |-> (MM_TO_M * 1000000000) \div inner]

\* 1.0 / MOL_SEC_2_M_PER_SEC, at scale 100.
M_PER_SEC_2_MOL_SEC(mol_sec_2_m_per_sec) == 100000000 \div mol_sec_2_m_per_sec

\* calc_transpiration_penmon(vpd, net_rad, tavg, wind, ca, daylen, press):
\* the daily Penman-Monteith path.  Writes gs_mol_m2_sec (scale 10^4),
\* ga_mol_m2_sec (scale 10^3) and transpiration.
calc_transpiration_penmon(p, s, f, vpd, net_rad, tavg, wind, ca, daylen, press) ==
    LET SEC_2_DAY == Seconds(daylen)
        \* the three assignments that end the method
        Written(gsc, conv, cbl, ev) ==
            IF ev.err # "" THEN [err |-> ev.err, fluxes |-> f]
            ELSE [err |-> "",
                  fluxes |->
                    [f EXCEPT
                       !.gs_mol_m2_sec = gsc.gs,
                       !.ga_mol_m2_sec =
                          (cbl.ga * M_PER_SEC_2_MOL_SEC(conv.v)) \div 10000,
                       !.transpiration = (ev.et * SEC_2_DAY) \div 1000000]]
        \* the statements in the order the method runs them
        Path(gsc, conv, cbl) ==
            IF gsc.err # "" THEN [err |-> gsc.err, fluxes |-> f]
            ELSE IF conv.err # "" THEN [err |-> conv.err, fluxes |-> f]
            ELSE IF cbl.err # "" THEN [err |-> cbl.err, fluxes |-> f]
            ELSE Written(gsc, conv, cbl,
                         PenmanMonteith_calc_evaporation(
                             PenmanMonteith_init(p), vpd, wind,
                             (gsc.gs * conv.v) \div 100000,   \* gs_m_per_sec
                             net_rad, tavg, press, s.canht, Some(cbl.ga)))
    IN  Path(calc_stomatal_conductance(p, s, vpd, ca, daylen, f.gpp_gCm2,
                                       press, tavg),
             MOL_SEC_2_M_PER_SEC(press, tavg),
             \* self.P.canopy_boundary_layer_conductance(wind)
             canopy_boundary_layer_conductance(PenmanMonteith_init(p), <<wind>>))

\* calc_transpiration_penmon_am_pm(net_rad, wind, ca, daylen, press, vpd,
\* tair, gpp): one half day.  Returns transpiration (mm per half day), omega,
\* and the stomatal (scale 10^4) and aerodynamic (scale 10^3) conductances in
\* mol m-2 per half day.
calc_transpiration_penmon_am_pm(p, s, net_rad, wind, ca, daylen, press, vpd, tair, gpp) ==
    LET canht          == s.canht
        half_day       == daylen \div 2
        SEC_2_HALF_DAY == Seconds(half_day)
        bad(e)         == [err |-> e, trans |-> 0, omegax |-> 0,
                           gs_mol_m2_hfday |-> 0, ga_mol_m2_hfday |-> 0]
        \* the returned tuple
        Returned(conv, cbl, gsc, ev) ==
            IF ev.err # "" THEN bad(ev.err)
            ELSE [err |-> "",
                  trans  |-> (ev.et * SEC_2_HALF_DAY) \div 1000000,
                  omegax |-> ev.omega,
                  gs_mol_m2_hfday |-> gsc.gs * SEC_2_HALF_DAY,
                  ga_mol_m2_hfday |->
                     ((cbl.ga * M_PER_SEC_2_MOL_SEC(conv.v)) \div 10000)
                       * SEC_2_HALF_DAY]
        \* the statements in the order the method runs them
        Path(conv, cbl, gsc) ==
            IF conv.err # "" THEN bad(conv.err)
            ELSE IF cbl.err # "" THEN bad(cbl.err)
            ELSE IF gsc.err # "" THEN bad(gsc.err)
            ELSE Returned(conv, cbl, gsc,
                          PenmanMonteith_calc_evaporation(
                              PenmanMonteith_init(p), vpd, wind,
                              (gsc.gs * conv.v) \div 100000,  \* gs_m_per_sec
                              net_rad, tair, press, canht, Some(cbl.ga)))
    IN  Path(MOL_SEC_2_M_PER_SEC(press, tair),
             canopy_boundary_layer_conductance(PenmanMonteith_init(p),
                                               <<wind, canht>>),
             calc_stomatal_conductance(p, s, vpd, ca, half_day, gpp, press,
                                       tair))

\* calc_transpiration_priestay(net_rad, tavg, press): Priestley-Taylor with
\* pt_coeff = 1.26.  The rate is stored as it is returned.
calc_transpiration_priestay(f, net_rad, tavg, press) ==
    LET Written(ev) ==
            IF ev.err # "" THEN [err |-> ev.err, fluxes |-> f]
            ELSE [err |-> "",
                  fluxes |-> [f EXCEPT !.transpiration = ev.et \div 1000000]]
    IN  Written(PriestleyTaylor_calc_evaporation(net_rad, tavg, press, 126))

\* calc_soil_evaporation(tavg, net_rad, press, daylen, sw_rad): Penman
\* evaporation reduced by the canopy cover and the topsoil dryness (mm/day).
calc_soil_evaporation(s, tavg, net_rad, press, daylen, sw_rad) ==
    LET soil_evap0 == Penman_calc_evaporation(net_rad, tavg, press)
        soil_evap1 == IF float_gt(s.lai, 0)
                      THEN (soil_evap0 * exp((-398 * s.lai * ES) \div (1000 * LAI)))
                             \div ES
                      ELSE soil_evap0
        soil_evap2 == (soil_evap1 * s.wtfac_topsoil) \div FRAC
        tconv      == Seconds(daylen)
    IN  (soil_evap2 * tconv) \div 1000000

\* The MATE branch with the daily Penman-Monteith variant (the call the
\* source keeps in a comment) in place of the two half days.
penmon_mate_daily_variant(p, s, f, m, rad, daylen) ==
    LET Written(dy) ==
            IF dy.err # "" THEN [err |-> dy.err, fluxes |-> f]
            ELSE [err |-> "",
                  fluxes |->
                    [f EXCEPT
                       !.omega = dy.omegax,
                       !.gs_mol_m2_sec = dy.gs_mol_m2_hfday \div Seconds(daylen),
                       !.ga_mol_m2_sec = dy.ga_mol_m2_hfday \div Seconds(daylen),
                       !.transpiration = dy.trans]]
    IN  Written(calc_transpiration_penmon_am_pm(
                    p, s, rad.day, m.wind_day, m.ca, 2 * daylen, m.press,
                    m.vpd_day, m.tair_day, f.gpp_gCm2))

\* The MATE branch of calculate_water_balance: the half-day path for the
\* morning and for the afternoon, and the unit conversions.  m is the day's
\* forcing, rad the net radiation of the day and of its halves.
penmon_mate(p, s, f, m, rad, daylen) ==
    LET \* multiplying by DAY_2_SEC = 1 / (60 * 60 * daylen)
        SEC_2_DAY == Seconds(daylen)
        Written(am, pm) ==
            IF am.err # "" THEN [err |-> am.err, fluxes |-> f]
            ELSE IF pm.err # "" THEN [err |-> pm.err, fluxes |-> f]
            ELSE [err |-> "",
                  fluxes |->
                    [f EXCEPT
                       !.omega = (am.omegax + pm.omegax) \div 2,
                       \* output in mol H20 m-2 s-1
                       !.gs_mol_m2_sec =
                          (am.gs_mol_m2_hfday + pm.gs_mol_m2_hfday)
                            \div SEC_2_DAY,
                       !.ga_mol_m2_sec =
                          (am.ga_mol_m2_hfday + pm.ga_mol_m2_hfday)
                            \div SEC_2_DAY,
                       \* mm day-1
                       !.transpiration = am.trans + pm.trans]]
    IN  Written(calc_transpiration_penmon_am_pm(
                    p, s, rad.am, m.wind_am, m.ca, daylen, m.press,
                    m.vpd_am, m.tair_am, f.gpp_am),
                calc_transpiration_penmon_am_pm(
                    p, s, rad.pm, m.wind_pm, m.ca, daylen, m.press,
                    m.vpd_pm, m.tair_pm, f.gpp_pm))

\* calculate_water_balance(day, daylen): one daily step.  Returns the
\* exception raised ("" for none) and State and Fluxes as the call leaves
\* them.  ctl = control, p = params, s = state, f = fluxes, met = met_data.
calculate_water_balance(ctl, p, s, f, met, d, daylen) ==
    LET half_day == daylen \div 2
        Raised(e, fl) == [err |-> e, state |-> s, fluxes |-> fl]
        \* self.fluxes.runoff = self.update_water_storage()
        Stored(u) ==
            [err |-> "", state |-> u.state,
             fluxes |-> [u.fluxes EXCEPT !.runoff = u.runoff]]
        \* self.fluxes.et = transpiration + soil_evap + interception
        Summed(f1) ==
            Stored(update_water_storage(
                       p, s, [f1 EXCEPT !.et = f1.transpiration + f1.soil_evap
                                                 + f1.interception]))
        \* self.calc_infiltration(rain); self.fluxes.soil_evap = ...
        Infiltrated(m, rad, inf) ==
            IF inf.err # "" THEN Raised(inf.err, inf.fluxes)
            ELSE Summed([inf.fluxes EXCEPT
                           !.soil_evap = calc_soil_evaporation(
                                             s, m.tair_day, rad.day, m.press,
                                             daylen, m.sw_rad_day)])
        Transpired(m, rad, tr) ==
            IF tr.err # "" THEN Raised(tr.err, tr.fluxes)
            ELSE Infiltrated(m, rad, calc_infiltration(p, s, tr.fluxes, m.rain))
        \* calculate water fluxes
        Fluxes(m, rad) ==
            Transpired(m, rad,
                IF ctl.trans_model = 0
                THEN calc_transpiration(f)
                ELSE IF ctl.trans_model = 1
                THEN IF ctl.assim_model = "BEWDY"
                     THEN calc_transpiration_penmon(
                              p, s, f, m.vpd_day, rad.day, m.tair_day,
                              m.wind_day, m.ca, daylen, m.press)
                     ELSE IF ctl.assim_model = "MATE"
                     THEN penmon_mate(p, s, f, m, rad, daylen)
                     ELSE [err |-> "", fluxes |-> f]
                ELSE IF ctl.trans_model = 2
                THEN calc_transpiration_priestay(f, rad.day, m.tair_day, m.press)
                ELSE [err |-> "", fluxes |-> f])
        \* met forcing
        Forced(m) ==
            Fluxes(m,
                   [day |-> calc_radiation(p, m.tair_day, m.sw_rad_day, daylen),
                    am  |-> calc_radiation(p, m.tair_am, m.sw_rad_am, half_day),
                    pm  |-> calc_radiation(p, m.tair_pm, m.sw_rad_pm, half_day)])
    IN  Forced(get_met_data(met, d))

\* --------------------------------------------------------------- SoilMoisture
\*
\* Fixed point: relative saturation and the volumetric water contents at
\* scale ES, soil fractions at scale 100, ctheta at scale 1000, ntheta at
\* scale 10, qs at scale FRAC, the Clapp-Hornberger exponent b at scale 100,
\* psi_sat in MPa at scale 10^5, depths in mm, the stress factors returned
\* at scale FRAC.

\* arg1 == arg2 : fabs(arg1 - arg2) < tol + tol * fabs(arg2).  For an integer
\* left side this is fabs(arg1 - arg2) <= floor(tol * fabs(arg2)).
float_eq(arg1, arg2) == fabs(arg1 - arg2) <= TimesTol(fabs(arg2))

\* The soil types of the two lookup tables, and one that neither knows.
SoilTypes ==
    {"clay", "clay_loam", "loam", "loamy_sand", "sand", "sandy_clay",
     "sandy_clay_loam", "sandy_loam", "silt", "silty_clay", "silty_clay_loam",
     "silty_loam", "peat"}

\* get_soil_params(soil_type): <<c_theta, n_theta>>, or sys.exit() for a type
\* that is not in the table (err = "SystemExit", nothing returned).
get_soil_params(soil_type) ==
    LET Found(c_theta, n_theta) == [err |-> "", ret |-> Some(<<c_theta, n_theta>>)]
    IN  CASE soil_type = "clay"            -> Found(400, 30)
          [] soil_type = "clay_loam"       -> Found(500, 50)
          [] soil_type = "loam"            -> Found(550, 60)
          [] soil_type = "loamy_sand"      -> Found(650, 80)
          [] soil_type = "sand"            -> Found(700, 90)
          [] soil_type = "sandy_clay"      -> Found(450, 40)
          [] soil_type = "sandy_clay_loam" -> Found(525, 55)
          [] soil_type = "sandy_loam"      -> Found(600, 70)
          [] soil_type = "silt"            -> Found(625, 75)
          [] soil_type = "silty_clay"      -> Found(425, 35)
          [] soil_type = "silty_clay_loam" -> Found(475, 45)
          [] soil_type = "silty_loam"      -> Found(575, 65)
          [] OTHER -> [err |-> "SystemExit", ret |-> None]

\* Indices of the fractions in the list get_soil_fracs returns (Python counts
\* from 0, a sequence from 1).
silt_index == 1
sand_index == 2
clay_index == 3

\* A variant that falls back on the fractions of a loam.
get_soil_fracs_default(soil_type) ==
    LET Found(silt, sand, clay) == [err |-> "", ret |-> Some(<<silt, sand, clay>>)]
    IN  CASE soil_type = "sand"            -> Found(5, 92, 3)
          [] soil_type = "loamy_sand"      -> Found(12, 82, 6)
          [] soil_type = "sandy_loam"      -> Found(32, 58, 10)
          [] soil_type = "loam"            -> Found(39, 43, 18)
          [] soil_type = "silty_loam"      -> Found(70, 17, 13)
          [] soil_type = "sandy_clay_loam" -> Found(15, 58, 27)
          [] soil_type = "clay_loam"       -> Found(34, 32, 34)
          [] soil_type = "silty_clay_loam" -> Found(56, 10, 34)
          [] soil_type = "sandy_clay"      -> Found(6, 52, 42)
          [] soil_type = "silty_clay"      -> Found(47, 6, 47)
          [] soil_type = "clay"            -> Found(20, 22, 58)
          [] OTHER -> Found(39, 43, 18)

\* get_soil_fracs(soil_type): the fractions of silt, sand and clay, or
\* sys.exit() for a type that is not in the table.
get_soil_fracs(soil_type) ==
    LET Found(silt, sand, clay) == [err |-> "", ret |-> Some(<<silt, sand, clay>>)]
    IN  CASE soil_type = "sand"            -> Found(5, 92, 3)
          [] soil_type = "loamy_sand"      -> Found(12, 82, 6)
          [] soil_type = "sandy_loam"      -> Found(32, 58, 10)
          [] soil_type = "loam"            -> Found(39, 43, 18)
          [] soil_type = "silty_loam"      -> Found(70, 17, 13)
          [] soil_type = "sandy_clay_loam" -> Found(15, 58, 27)
          [] soil_type = "clay_loam"       -> Found(34, 32, 34)
          [] soil_type = "silty_clay_loam" -> Found(56, 10, 34)
          [] soil_type = "sandy_clay"      -> Found(6, 52, 42)
          [] soil_type = "silty_clay"      -> Found(47, 6, 47)
          [] soil_type = "clay"            -> Found(20, 22, 58)
          [] OTHER -> [err |-> "SystemExit", ret |-> None]

\* calc_soil_params(fsoil): the Cosby parameters.  psi_sat_m is -psi_sat in
\* metres of head (scale ES), the two pressure heads are 152.9 m and 3.364 m.
calc_soil_params(fsoil) ==
    LET b == 310 + (1570 * fsoil[clay_index] - 30 * fsoil[sand_index]) \div 100
        psi_sat_m == pow(10 * ES, 15400 - 95 * fsoil[sand_index]
                                        + 63 * fsoil[silt_index]) \div 100
        theta_sp == 5050 - (37 * fsoil[clay_index] + 142 * fsoil[sand_index]) \div 10
        Params(psi, inv_b) ==
            [theta_fc |-> (theta_sp * pow((psi * 1000) \div 3364, inv_b)) \div ES,
             theta_wp |-> (theta_sp * pow((psi * 10) \div 1529, inv_b)) \div ES,
             theta_sp |-> theta_sp,
             b        |-> b,
             psi_sat_mpa |-> 0 - (psi * 981) \div 10000]
    IN  Params(psi_sat_m, (100 * ES) \div b)

\* initialise_parameters(): [err, params].  With calc_sw_params the capacities
\* and the Clapp-Hornberger parameters of both layers are derived from the
\* soil types; the Landsberg-Waring parameters are looked up when all four
\* of them are None.
initialise_parameters(ctl, p) ==
    LET Derived(top, root) ==
            [p EXCEPT !.theta_sat_topsoil = Some(top.theta_sp),
                      !.b_topsoil = Some(top.b),
                      !.psi_sat_topsoil = Some(top.psi_sat_mpa),
                      !.wcapac_topsoil =
                          (p.topsoil_depth * (top.theta_fc - top.theta_wp)) \div 100,
                      !.theta_sat_root = Some(root.theta_sp),
                      !.b_root = Some(root.b),
                      !.psi_sat_root = Some(root.psi_sat_mpa),
                      !.wcapac_root =
                          (p.rooting_depth * (root.theta_fc - root.theta_wp)) \div 100]
        LookedUp(q, top, root) ==
            IF top.err # "" THEN [err |-> top.err, params |-> q]
            ELSE IF root.err # ""
            THEN [err |-> root.err,
                  params |-> [q EXCEPT !.ctheta_topsoil = Some(top.ret[1][1]),
                                       !.ntheta_topsoil = Some(top.ret[1][2])]]
            ELSE [err |-> "",
                  params |-> [q EXCEPT !.ctheta_topsoil = Some(top.ret[1][1]),
                                       !.ntheta_topsoil = Some(top.ret[1][2]),
                                       !.ctheta_root = Some(root.ret[1][1]),
                                       !.ntheta_root = Some(root.ret[1][2])]]
        LandsbergWaring(q) ==
            IF /\ q.ctheta_topsoil = None /\ q.ntheta_topsoil = None
               /\ q.ctheta_root = None /\ q.ntheta_root = None
            THEN LookedUp(q, get_soil_params(q.topsoil_type),
                             get_soil_params(q.rootsoil_type))
            ELSE [err |-> "", params |-> q]
        Cosby(fsoil_top, fsoil_root) ==
            IF fsoil_top.err # "" THEN [err |-> fsoil_top.err, params |-> p]
            ELSE IF fsoil_root.err # "" THEN [err |-> fsoil_root.err, params |-> p]
            ELSE LandsbergWaring(Derived(calc_soil_params(fsoil_top.ret[1]),
                                         calc_soil_params(fsoil_root.ret[1])))
    IN  IF ctl.calc_sw_params
        THEN Cosby(get_soil_fracs(p.topsoil_type), get_soil_fracs(p.rootsoil_type))
        ELSE LandsbergWaring(p)

\* A variant with 2 for the numerator.
calc_sw_modifier_twice(theta, c_theta, n_theta) ==
    (2 * ES * ES) \div (ES + pow(((ES - theta) * 1000) \div c_theta, n_theta * 1000))

\* calc_sw_modifier(theta, c_theta, n_theta):
\* 1 / (1 + ((1 - theta) / c_theta) ** n_theta), at scale ES.
calc_sw_modifier(theta, c_theta, n_theta) ==
    (ES * ES) \div (ES + pow(((ES - theta) * 1000) \div c_theta, n_theta * 1000))

\* Largest value of arg2 ** arg3 (scale 100) that stress model 2 multiplies
\* psi_sat with: the water potential it gives is below -20 MPa, where
\* exp(0.66 psi) is 0 at scale ES.
PsiFactorMax == 1000000

\* calculate_soil_water_fac(): [err, wtfac_topsoil, wtfac_root].  The factor
\* of the top soil is computed before that of the root zone.
calculate_soil_water_fac(ctl, p, s) ==
    LET Value(v) == [err |-> "", v |-> v]
        Raised(err) == [err |-> err, wtfac_topsoil |-> 0, wtfac_root |-> 0]
        Returned(top, root) ==
            IF top.err # "" THEN Raised(top.err)
            ELSE IF root.err # "" THEN Raised(root.err)
            ELSE [err |-> "", wtfac_topsoil |-> top.v \div (ES \div FRAC),
                              wtfac_root |-> root.v \div (ES \div FRAC)]
        sw_modifier(theta, c_theta, n_theta) ==
            IF c_theta = None \/ n_theta = None THEN [err |-> "TypeError", v |-> 0]
            ELSE IF c_theta[1] = 0 THEN [err |-> "ZeroDivisionError", v |-> 0]
            ELSE Value(calc_sw_modifier(theta, c_theta[1], n_theta[1]))
        psi_swp(smc, psi_sat, theta_sat, b) ==
            IF float_eq(smc, 0) THEN Value(0 - 15000)
            ELSE IF psi_sat = None \/ theta_sat = None \/ b = None
            THEN [err |-> "TypeError", v |-> 0]
            ELSE IF theta_sat[1] = 0 THEN [err |-> "ZeroDivisionError", v |-> 0]
            ELSE Value((psi_sat[1]
                        * min2(pow((smc * ES) \div theta_sat[1], 0 - b[1] * 100)
                                 \div 100, PsiFactorMax)) \div 1000)
        Stressed(psi_topsoil, psi_root) ==
            IF psi_topsoil.err # "" THEN Raised(psi_topsoil.err)
            ELSE IF psi_root.err # "" THEN Raised(psi_root.err)
            ELSE Returned(Value(exp((66 * psi_topsoil.v) \div 100)),
                          Value(exp((66 * psi_root.v) \div 100)))
        Factors(smc_topsoil, smc_root) ==
            IF ctl.sw_stress_model = 0
            THEN Returned(Value(pow(smc_topsoil, p.qs * (ES \div FRAC))),
                          Value(pow(smc_root, p.qs * (ES \div FRAC))))
            ELSE IF ctl.sw_stress_model = 1
            THEN Returned(sw_modifier(smc_topsoil, p.ctheta_topsoil, p.ntheta_topsoil),
                          sw_modifier(smc_root, p.ctheta_root, p.ntheta_root))
            ELSE IF ctl.sw_stress_model = 2
            THEN Stressed(psi_swp(smc_topsoil, p.psi_sat_topsoil,
                                  p.theta_sat_topsoil, p.b_topsoil),
                          psi_swp(smc_root, p.psi_sat_root,
                                  p.theta_sat_root, p.b_root))
            ELSE Raised("UnboundLocalError")
    IN  IF p.wcapac_topsoil = 0 \/ p.wcapac_root = 0
        THEN Raised("ZeroDivisionError")
        ELSE Factors((s.pawater_topsoil * ES) \div p.wcapac_topsoil,
                     (s.pawater_root * ES) \div p.wcapac_root)

\* ------------------------------------------------------------------ the objects

\* Parameters of a site (wcapac_* in mm, the rest as scaled above).
Params0 ==
    [wcapac_topsoil   |-> 50 * MM,
     wcapac_root      |-> 100 * MM,
     fractup_soil     |-> FRAC \div 2,
     intercep_frac    |-> (15 * FRAC) \div 100,
     max_intercep_lai |-> 3 * LAI,
     albedo           |-> (20 * FRAC) \div 100,
     g1               |-> 400,
     dz0v_dh          |-> (10 * FRAC) \div 100,
     displace_ratio   |-> (67 * FRAC) \div 100,
     z0h_z0m          |-> FRAC,
     qs               |-> (20 * FRAC) \div 100,
     topsoil_type     |-> "clay_loam",
     rootsoil_type    |-> "clay_loam",
     topsoil_depth    |-> 350,
     rooting_depth    |-> 2000,
     ctheta_topsoil   |-> Some(500),
     ntheta_topsoil   |-> Some(50),
     ctheta_root      |-> Some(500),
     ntheta_root      |-> Some(50),
     theta_sat_topsoil |-> None,
     theta_sat_root   |-> None,
     b_topsoil        |-> None,
     b_root           |-> None,
     psi_sat_topsoil  |-> None,
     psi_sat_root     |-> None]

\* State at the start of a run.
State0 ==
    [pawater_topsoil |-> 40 * MM,
     pawater_root    |-> 95 * MM,
     delta_sw_store  |-> 0,
     wtfac_topsoil   |-> FRAC,
     wtfac_root      |-> FRAC,
     lai             |-> 0,
     canht           |-> 200]

\* Fluxes reset by the host.
Fluxes0 ==
    [transpiration |-> 0,
     soil_evap     |-> 0,
     interception  |-> 0,
     erain         |-> 0,
     et            |-> 0,
     runoff        |-> 0,
     gs_mol_m2_sec |-> 0,
     ga_mol_m2_sec |-> 0,
     omega         |-> 0,
     gpp_gCm2      |-> 0,
     gpp_am        |-> 0,
     gpp_pm        |-> 0,
     wue           |-> 0]

Control0 ==
    [trans_model |-> 0, assim_model |-> "MATE", sw_stress_model |-> 1,
     calc_sw_params |-> FALSE]

\* A call: the operation and its arguments.
Call(op, args) == [op |-> op, args |-> args]

\* Days the forcing series cover.
Days == 0..MaxBalanceDay

\* A forcing data set: one value per day for each variable.  Temperatures in
\* degC, radiation in MJ m-2 d-1 (scale 100), rain in mm (scale MM), vpd in
\* kPa (scale 100), wind in m s-1 (scale 10), co2 in umol mol-1, pressure in
\* kPa (scale 10).  Morning and afternoon values differ from the daily mean.
MetSeries(rain0, atmos_press) ==
    [co2         |-> [d \in Days |-> 400],
     tair        |-> [d \in Days |-> 20 - d],
     tam         |-> [d \in Days |-> 15 - d],
     tpm         |-> [d \in Days |-> 25 - d],
     sw_rad      |-> [d \in Days |-> 2000],
     sw_rad_am   |-> [d \in Days |-> 900],
     sw_rad_pm   |-> [d \in Days |-> 1100],
     rain        |-> [d \in Days |-> IF d = 0 THEN rain0 ELSE 0],
     vpd_avg     |-> [d \in Days |-> 100],
     vpd_am      |-> [d \in Days |-> 80],
     vpd_pm      |-> [d \in Days |-> 150],
     wind_am     |-> [d \in Days |-> 20],
     wind_pm     |-> [d \in Days |-> 30],
     wind        |-> [d \in Days |-> 25],
     atmos_press |-> atmos_press]

\* The data set with a pressure series, 10 mm of rain on the first day.
MetData0 == MetSeries(10 * MM, Some([d \in Days |-> 998]))

\* The data set without a pressure series, 1 mm of rain on the first day.
MetDataNoPress == MetSeries(MM, None)

\* ------------------------------------------------- storage update, called alone

\* Capacities (topsoil, root zone) and topsoil uptake fraction of the sites.
StorageSites ==
    { [Params0 EXCEPT !.wcapac_topsoil = c[1], !.wcapac_root = c[2],
                      !.fractup_soil = c[3]] :
        c \in { <<50 * MM, 100 * MM, FRAC \div 2>>,
                <<5 * MM, 10 * MM, FRAC>>,
                <<0, 0, FRAC \div 2>> } }

\* Starting reservoirs (topsoil, root zone), inside and outside the capacities.
StorageStarts ==
    { [State0 EXCEPT !.pawater_topsoil = r[1], !.pawater_root = r[2]] :
        r \in { <<40 * MM, 95 * MM>>, <<2 * MM, 3 * MM>>, <<-1 * MM, -2 * MM>> } }

ErainSet        == { -4 * MM, 0, 10 * MM }
TranspSet       == { 0, 2 * MM, 3 * MM }
SoilEvapSet     == { 0, 1 * MM }
InterceptionSet == { 0, MM \div 2 }
WtfacSet        == { 0, FRAC \div 2, FRAC }

InitStorage ==
    /\ control = Control0
    /\ params \in StorageSites
    /\ state \in StorageStarts
    /\ fluxes = Fluxes0
    /\ met_data = MetData0
    /\ day = 0
    /\ call = Call("__init__", <<>>)
    /\ ret = None
    /\ outcome = ""
    /\ objects = <<>>
    /\ instances = <<>>
    /\ sma = None

\* The caller fills in the day's fluxes, et being their sum as at the end of
\* calculate_water_balance.
HostWriteFluxes ==
    /\ day < MaxDay
    /\ \E e \in ErainSet, t \in TranspSet, v \in SoilEvapSet, i \in InterceptionSet :
          fluxes' = [fluxes EXCEPT !.erain = e, !.transpiration = t,
                                   !.soil_evap = v, !.interception = i,
                                   !.et = t + v + i]
    /\ call' = Call("host", <<>>)
    /\ ret' = None
    /\ UNCHANGED <<control, params, state, met_data, day, outcome, objects, instances, sma>>

\* The caller stores the topsoil stress factor in State.
HostWriteStress ==
    /\ day < MaxDay
    /\ \E w \in WtfacSet : state' = [state EXCEPT !.wtfac_topsoil = w]
    /\ call' = Call("host", <<>>)
    /\ ret' = None
    /\ UNCHANGED <<control, params, fluxes, met_data, day, outcome, objects, instances, sma>>

\* One call of update_water_storage().
UpdateWaterStorage ==
    /\ day < MaxDay
    /\ LET r == update_water_storage(params, state, fluxes)
       IN  /\ state' = r.state
           /\ fluxes' = r.fluxes
           /\ ret' = Some(r.runoff)
    /\ day' = day + 1
    /\ call' = Call("update_water_storage", <<>>)
    /\ UNCHANGED <<control, params, met_data, outcome, objects, instances, sma>>

NextStorage ==
    \/ HostWriteFluxes
    \/ HostWriteStress
    \/ UpdateWaterStorage

SpecStorage == InitStorage /\ [][NextStorage]_vars

\* ------------------------------------------------ calc_infiltration, called alone

\* Interception parameters of the sites.
InfiltrationSites ==
    { [Params0 EXCEPT !.intercep_frac = i] : i \in {(15 * FRAC) \div 100, FRAC \div 2} }

\* Leaf area index values the caller stores (a negative one included).
LaiSet == {0 - LAI, 0, (3 * LAI) \div 2, 3 * LAI, 6 * LAI}

\* Rain arguments (mm, scale MM).
RainSet == {0 - 2 * MM, 0, MM \div 3, 5 * MM, 10 * MM}

\* Fluxes as an earlier day has left them.
FluxesUsed ==
    [Fluxes0 EXCEPT !.transpiration = 2 * MM, !.soil_evap = MM, !.et = 3 * MM,
                    !.runoff = 5 * MM, !.gpp_gCm2 = 5 * GC, !.wue = 2 * GC]

InitInfiltration ==
    /\ control = Control0
    /\ params \in InfiltrationSites
    /\ state = State0
    /\ fluxes = FluxesUsed
    /\ met_data = MetData0
    /\ day = 0
    /\ call = Call("__init__", <<>>)
    /\ ret = None
    /\ outcome = ""
    /\ objects = <<>>
    /\ instances = <<>>
    /\ sma = None

\* The caller stores the canopy's leaf area index in State.
HostWriteLai ==
    /\ \E l \in LaiSet : state' = [state EXCEPT !.lai = l]
    /\ call' = Call("host", <<>>)
    /\ UNCHANGED <<control, params, fluxes, met_data, day, ret, outcome, objects, instances, sma>>

\* One call of calc_infiltration(rain).
CalcInfiltration ==
    \E rain \in RainSet :
       LET r == calc_infiltration(params, state, fluxes, rain)
       IN  /\ fluxes' = r.fluxes
           /\ outcome' = r.err
           /\ ret' = None
           /\ call' = Call("calc_infiltration", <<rain>>)
           /\ UNCHANGED <<control, params, state, met_data, day, objects, instances, sma>>

NextInfiltration == HostWriteLai \/ CalcInfiltration

SpecInfiltration == InitInfiltration /\ [][NextInfiltration]_vars

\* ------------------------------------------------------------ the daily step

\* Transpiration model and assimilation model of the runs: the supported
\* combinations, a transpiration model that does not exist and an
\* assimilation model that does not exist.
ControlSet ==
    { [Control0 EXCEPT !.trans_model = c[1], !.assim_model = c[2]] :
        c \in {<<0, "MATE">>, <<1, "BEWDY">>, <<1, "MATE">>, <<2, "MATE">>,
               <<3, "MATE">>, <<1, "OTHER">>} }

\* Reservoir contents at the start of a run: nearly full, and nearly empty.
BalanceStarts ==
    { [State0 EXCEPT !.pawater_topsoil = c[1] * MM, !.pawater_root = c[2] * MM] :
        c \in {<<40, 95>>, <<2, 3>>} }

\* What the rest of the model hands to a day's step: the carbon uptake of
\* the day and of its halves, the water use efficiency, the stress factors
\* and the leaf area index.
HostInputs ==
    { [gpp_gCm2 |-> c[1], gpp_am |-> c[2], gpp_pm |-> c[3], wue |-> c[4],
       wtfac_topsoil |-> c[5], wtfac_root |-> c[6], lai |-> c[7]] :
        c \in { <<5 * GC, 2 * GC, 3 * GC, (5 * GC) \div 2, FRAC, FRAC, 2 * LAI>>,
                <<5 * GC, 2 * GC, 3 * GC, 0, FRAC, FRAC, 0>>,
                <<5 * GC, 2 * GC, 3 * GC, 0 - GC, FRAC \div 2, (3 * FRAC) \div 10, 2 * LAI>>,
                <<10 * GC, 5 * GC, 5 * GC, GC, FRAC, FRAC, 2 * LAI>>,
                <<10 * GC, 6 * GC, 4 * GC, GC, FRAC \div 2, FRAC \div 2, 0>>,
                <<0, 0, 0, (5 * GC) \div 2, FRAC, FRAC, 0>> } }

\* Day lengths in hours (scale 2).
DaylenSet == {20, 24}

Init ==
    /\ control \in ControlSet
    /\ params = Params0
    /\ state \in BalanceStarts
    /\ fluxes = Fluxes0
    /\ met_data \in {MetData0, MetDataNoPress}
    /\ day = 0
    /\ call = Call("__init__", <<>>)
    /\ ret = None
    /\ outcome = ""
    /\ objects = <<>>
    /\ instances = <<>>
    /\ sma = None

\* What a Fluxes field holds after the reset until something writes it: a
\* value that no flux of these runs takes (all of them are >= 0).
Unset == 0 - 1

\* Fluxes after the reset by the rest of the model: a clean slate.
FluxesClean == [k \in DOMAIN Fluxes0 |-> Unset]

\* Before a day's step the rest of the model resets Fluxes and writes the
\* day's inputs into Fluxes and State.
HostDay ==
    /\ outcome = ""
    /\ day < MaxBalanceDay
    /\ call.op # "host"
    /\ \E h \in HostInputs :
          /\ fluxes' = [FluxesClean EXCEPT !.gpp_gCm2 = h.gpp_gCm2,
                                          !.gpp_am = h.gpp_am,
                                          !.gpp_pm = h.gpp_pm, !.wue = h.wue]
          /\ state' = [state EXCEPT !.wtfac_topsoil = h.wtfac_topsoil,
                                    !.wtfac_root = h.wtfac_root, !.lai = h.lai]
    /\ call' = Call("host", <<>>)
    /\ UNCHANGED <<control, params, met_data, day, ret, outcome, objects, instances, sma>>

\* One call of calculate_water_balance(day, daylen).  An exception ends the
\* run, State and Fluxes staying as the call had left them when it was raised.
CalculateWaterBalance ==
    /\ call.op = "host"
    /\ \E daylen \in DaylenSet :
          LET r == calculate_water_balance(control, params, state, fluxes,
                                           met_data, day, daylen)
          IN  /\ state' = r.state
              /\ fluxes' = r.fluxes
              /\ outcome' = r.err
              /\ call' = Call("calculate_water_balance", <<day, daylen>>)
    /\ day' = IF outcome' = "" THEN day + 1 ELSE day
    /\ ret' = None
    /\ UNCHANGED <<control, params, met_data, objects, instances, sma>>

Next == HostDay \/ CalculateWaterBalance

Spec == Init /\ [][Next]_vars

\* ---------------------------------------------------- claims on the storage update

\* The root-zone value of the step about to run: after the raw update ...
RawRoot ==
    state.pawater_root + fluxes.erain - fluxes.transpiration - fluxes.soil_evap

\* ... and after the excess over the capacity has been removed.
RootAfterRunoff == min2(RawRoot, params.wcapac_root)

\* The step that is being taken is a call of update_water_storage.
IsUpdate == call'.op = "update_water_storage"

\* C1: after every call of update_water_storage on a site with non-negative
\* capacities, 0 <= pawater_topsoil <= wcapac_topsoil and
\* 0 <= pawater_root <= wcapac_root, whatever the starting reservoirs and
\* the day's fluxes were.
C1_ReservoirBounds ==
    (/\ call.op = "update_water_storage"
     /\ params.wcapac_topsoil >= 0
     /\ params.wcapac_root >= 0)
    => /\ 0 <= state.pawater_topsoil
       /\ state.pawater_topsoil <= params.wcapac_topsoil
       /\ 0 <= state.pawater_root
       /\ state.pawater_root <= params.wcapac_root

\* A step that took the root zone from 3 mm below zero (4 mm of negative
\* effective rain) and left it clipped at 0.
C1_Witness ==
    /\ call.op = "update_water_storage"
    /\ fluxes.erain = -4 * MM
    /\ state.pawater_root = 0
    /\ state.delta_sw_store = -3 * MM

\* C2 (as claimed): whenever the root-zone value after the raw update and the
\* overflow removal is <= 0, exactly 0 included, the step ends with
\* transpiration = 0, soil_evap = 0 and et = interception.
C2_DroughtAtOrBelowZero ==
    [][(IsUpdate /\ RootAfterRunoff <= 0)
         => /\ fluxes'.transpiration = 0
            /\ fluxes'.soil_evap = 0
            /\ fluxes'.et = fluxes'.interception]_vars

\* C3: update_water_storage returns runoff = max(0, raw - wcapac_root) >= 0,
\* raw being the unclipped root-zone value, and when raw > wcapac_root the
\* root zone ends at wcapac_root.
C3_RunoffRule ==
    [][IsUpdate
         => /\ ret' = Some(max2(0, RawRoot - params.wcapac_root))
            /\ ret'[1] >= 0
            /\ (RawRoot > params.wcapac_root
                  => state'.pawater_root = params.wcapac_root)]_vars

\* Capacity 100 mm, 95 mm stored, net input +10 mm: runoff 5 mm, 100 mm left.
C3_Witness ==
    /\ call.op = "update_water_storage"
    /\ params.wcapac_root = 100 * MM
    /\ fluxes.erain - fluxes.transpiration - fluxes.soil_evap = 10 * MM
    /\ ret = Some(5 * MM)
    /\ state.pawater_root = 100 * MM
    /\ state.delta_sw_store = 5 * MM

\* C4: one call runs its steps in this order: the topsoil is debited with the
\* fluxes as they stand at the call and clipped; runoff is taken from the
\* unclipped root-zone value; the drought test reads the value left after the
\* runoff removal and before the lower clip, so a negative value zeroes
\* transpiration and soil_evap and a positive one leaves the fluxes alone;
\* the root zone is then clipped and delta_sw_store is the clipped value
\* less the previous one.
C4_StepOrder ==
    [][IsUpdate
         => /\ state'.pawater_topsoil
                 = min2(max2(state.pawater_topsoil + fluxes.erain
                               - (fluxes.transpiration * params.fractup_soil
                                    * state.wtfac_topsoil) \div (FRAC * FRAC)
                               - fluxes.soil_evap, 0),
                        params.wcapac_topsoil)
            /\ ret' = Some(IF RawRoot > params.wcapac_root
                           THEN RawRoot - params.wcapac_root ELSE 0)
            /\ (RootAfterRunoff < 0
                  => fluxes' = [fluxes EXCEPT !.transpiration = 0,
                                              !.soil_evap = 0,
                                              !.et = fluxes.interception])
            /\ (RootAfterRunoff > 0 => fluxes' = fluxes)
            /\ state'.pawater_root
                 = min2(max2(RootAfterRunoff, 0), params.wcapac_root)
            /\ state'.delta_sw_store
                 = state'.pawater_root - state.pawater_root]_vars

\* A drought step: 3 mm stored and no rain, the root zone went negative and
\* the fluxes were zeroed, yet the topsoil (2 mm, stress factor 0) has lost
\* the 1 mm of soil evaporation the fluxes held when the call began.
C4_Witness ==
    /\ call.op = "update_water_storage"
    /\ params.wcapac_topsoil = 50 * MM
    /\ state.wtfac_topsoil = 0
    /\ fluxes.erain = 0
    /\ fluxes.transpiration = 0
    /\ fluxes.soil_evap = 0
    /\ fluxes.et = fluxes.interception
    /\ state.pawater_root = 0
    /\ state.delta_sw_store = -3 * MM
    /\ state.pawater_topsoil = 1 * MM
    /\ day = 1

\* C6: after update_water_storage, pawater_topsoil is
\* old + erain - transpiration*fractup_soil*wtfac_topsoil - soil_evap,
\* clipped to [0, wcapac_topsoil], with the transpiration and soil_evap that
\* Fluxes held when the call began.
C6_TopsoilUpdate ==
    [][IsUpdate
         => LET uptake == (fluxes.transpiration * params.fractup_soil
                             * state.wtfac_topsoil) \div (FRAC * FRAC)
                raw    == state.pawater_topsoil + fluxes.erain - uptake
                            - fluxes.soil_evap
            IN  state'.pawater_topsoil
                  = IF raw < 0 THEN 0
                    ELSE IF raw > params.wcapac_topsoil
                         THEN params.wcapac_topsoil
                         ELSE raw]_vars

\* 40 mm, erain 10, transpiration 2, soil_evap 1, fractup_soil 0.5,
\* wtfac_topsoil 1, capacity 50: 48 mm on the first day.
C6_Witness ==
    /\ call.op = "update_water_storage"
    /\ day = 1
    /\ params.wcapac_topsoil = 50 * MM
    /\ params.fractup_soil * 2 = FRAC
    /\ state.wtfac_topsoil = FRAC
    /\ fluxes.erain = 10 * MM
    /\ fluxes.transpiration = 2 * MM
    /\ fluxes.soil_evap = 1 * MM
    /\ state.pawater_topsoil = 48 * MM

\* ------------------------------------------------ claims on calc_infiltration

\* The step that is being taken is a call of calc_infiltration.
IsInfiltration == call'.op = "calc_infiltration"

\* C7: calc_infiltration(rain) sets, when lai > 0, interception to
\* rain * intercep_frac * min(1, lai / max_intercep_lai) and erain to
\* rain - interception, so that the two add up to rain; when lai <= 0 it sets
\* erain to max(0, rain) and interception to 0.  It writes no other flux and
\* no State field.
C7_InfiltrationRule ==
    [][IsInfiltration =>
         LET rain == call'.args[1]
         IN  /\ outcome' = ""
             /\ IF state.lai > 0
                THEN /\ fluxes'.interception =
                          (rain * params.intercep_frac
                             * min2(FRAC, (state.lai * FRAC)
                                            \div params.max_intercep_lai))
                            \div (FRAC * FRAC)
                     /\ fluxes'.erain = rain - fluxes'.interception
                     /\ fluxes'.erain + fluxes'.interception = rain
                ELSE /\ fluxes'.erain = max2(0, rain)
                     /\ fluxes'.interception = 0
             /\ \A k \in DOMAIN fluxes \ {"erain", "interception"} :
                   fluxes'[k] = fluxes[k]
             /\ state' = state]_vars

\* C7 happens: under a canopy thinner than max_intercep_lai, part of a
\* positive rain was intercepted and the rest reached the soil.
C7_Witness ==
    /\ call.op = "calc_infiltration"
    /\ call.args[1] > 0
    /\ state.lai > 0
    /\ state.lai < params.max_intercep_lai
    /\ fluxes.interception > 0
    /\ fluxes.erain > 0
    /\ fluxes.erain + fluxes.interception = call.args[1]

\* ------------------------------------------------- claims on the daily step

\* The step that is being taken is a call of calculate_water_balance.
IsBalance == call'.op = "calculate_water_balance"

\* The last call was calculate_water_balance and it returned normally.
BalanceDone == call.op = "calculate_water_balance" /\ outcome = ""

\* C5: at the end of every successful calculate_water_balance call, on
\* drought days and on the others, et is the sum of the final transpiration,
\* soil evaporation and interception.
C5_EtIdentity ==
    BalanceDone =>
        fluxes.et = fluxes.transpiration + fluxes.soil_evap + fluxes.interception

\* C5 happens: a drought day under a canopy, where the demand of the plants
\* was cancelled and et is the intercepted rain alone.
C5_Witness ==
    /\ BalanceDone
    /\ fluxes.gpp_gCm2 > 0
    /\ fluxes.wue > 0
    /\ control.trans_model = 0
    /\ state.pawater_root = 0
    /\ fluxes.transpiration = 0
    /\ fluxes.soil_evap = 0
    /\ fluxes.interception > 0
    /\ fluxes.et = fluxes.interception

\* C8: with trans_model = 1 and assim_model = BEWDY (and a pressure series
\* in the forcing), calculate_water_balance runs the daily Penman-Monteith
\* path and completes without error.
C8_BewdyCompletes ==
    (/\ call.op = "calculate_water_balance"
     /\ control.trans_model = 1
     /\ control.assim_model = "BEWDY"
     /\ met_data.atmos_press # None)
    => outcome = ""

\* The per-second aerodynamic conductance (mol m-2 s-1) of one half day.
HalfDayGa(wind, press, tair) ==
    (canopy_boundary_layer_conductance(PenmanMonteith_init(params),
                                       <<wind, state.canht>>).ga
       * M_PER_SEC_2_MOL_SEC(MOL_SEC_2_M_PER_SEC(press, tair).v)) \div 10000

\* C9: with trans_model = 1 and assim_model = MATE, the half-day path is
\* evaluated once on the morning values and once on the afternoon values;
\* transpiration is the sum of the two (unless the drought correction has
\* cancelled it), omega their mean, and gs_mol_m2_sec and ga_mol_m2_sec are
\* the sums of the half-day amounts over 3600 * daylen, which is the mean of
\* the two per-second conductances.
C9_MatePath ==
    [][(/\ IsBalance
        /\ control.trans_model = 1
        /\ control.assim_model = "MATE"
        /\ outcome' = "") =>
         LET daylen == call'.args[2]
             half   == daylen \div 2
             m      == get_met_data(met_data, day)
             am == calc_transpiration_penmon_am_pm(
                       params, state,
                       calc_radiation(params, m.tair_am, m.sw_rad_am, half),
                       m.wind_am, m.ca, daylen, m.press, m.vpd_am, m.tair_am,
                       fluxes.gpp_am)
             pm == calc_transpiration_penmon_am_pm(
                       params, state,
                       calc_radiation(params, m.tair_pm, m.sw_rad_pm, half),
                       m.wind_pm, m.ca, daylen, m.press, m.vpd_pm, m.tair_pm,
                       fluxes.gpp_pm)
             gs_am == calc_stomatal_conductance(
                          params, state, m.vpd_am, m.ca, half, fluxes.gpp_am,
                          m.press, m.tair_am).gs
             gs_pm == calc_stomatal_conductance(
                          params, state, m.vpd_pm, m.ca, half, fluxes.gpp_pm,
                          m.press, m.tair_pm).gs
             ga_am == HalfDayGa(m.wind_am, m.press, m.tair_am)
             ga_pm == HalfDayGa(m.wind_pm, m.press, m.tair_pm)
         IN  /\ am.err = "" /\ pm.err = ""
             /\ fluxes'.omega = (am.omegax + pm.omegax) \div 2
             /\ fluxes'.gs_mol_m2_sec =
                   (am.gs_mol_m2_hfday + pm.gs_mol_m2_hfday)
                     \div ((3600 * daylen) \div 2)
             /\ fluxes'.gs_mol_m2_sec = (gs_am + gs_pm) \div 2
             /\ fluxes'.ga_mol_m2_sec =
                   (am.ga_mol_m2_hfday + pm.ga_mol_m2_hfday)
                     \div ((3600 * daylen) \div 2)
             /\ fluxes'.ga_mol_m2_sec = (ga_am + ga_pm) \div 2
             /\ \/ fluxes'.transpiration = am.trans + pm.trans
                \/ /\ state'.pawater_root = 0
                   /\ fluxes'.transpiration = 0
             /\ state'.pawater_root > 0 =>
                   fluxes'.transpiration = am.trans + pm.trans]_vars

\* C9 happens: a MATE day with carbon uptake in both halves has completed
\* and the plants have transpired.
C9_Witness ==
    /\ BalanceDone
    /\ control.trans_model = 1
    /\ control.assim_model = "MATE"
    /\ fluxes.gpp_am > 0
    /\ fluxes.gpp_pm > 0
    /\ fluxes.gpp_am # fluxes.gpp_pm
    /\ fluxes.transpiration > 0
    /\ fluxes.omega > 0
    /\ fluxes.gs_mol_m2_sec > 0
    /\ fluxes.ga_mol_m2_sec > 0

\* C10: with trans_model = 0, calculate_water_balance sets transpiration to
\* gpp_gCm2 / wue when wue > 0 (the drought correction may cancel it
\* afterwards) and to 0 when wue <= 0, and never divides by a zero wue.
C10_WuePath ==
    [][(IsBalance /\ control.trans_model = 0) =>
         /\ outcome' = ""
         /\ IF fluxes.wue > 0
            THEN /\ \/ fluxes'.transpiration = (fluxes.gpp_gCm2 * MM) \div fluxes.wue
                    \/ /\ state'.pawater_root = 0
                       /\ fluxes'.transpiration = 0
                 /\ state'.pawater_root > 0 =>
                       fluxes'.transpiration = (fluxes.gpp_gCm2 * MM) \div fluxes.wue
            ELSE fluxes'.transpiration = 0]_vars

\* C10 happens: a WUE day with carbon uptake and a water use efficiency of
\* exactly zero has completed with no transpiration, on soil that is not dry.
C10_Witness ==
    /\ BalanceDone
    /\ control.trans_model = 0
    /\ fluxes.gpp_gCm2 > 0
    /\ fluxes.wue = 0
    /\ fluxes.transpiration = 0
    /\ state.pawater_root > 0

\* C11: when the forcing has no atmos_press series, calculate_water_balance
\* falls back on calc_atmos_pressure wherever pressure is needed, and the
\* daily step completes on every transpiration path (the BEWDY path, which
\* fails for a reason of its own, is left aside here).
C11_NoPressureCompletes ==
    (/\ call.op = "calculate_water_balance"
     /\ met_data.atmos_press = None
     /\ control.assim_model # "BEWDY")
    => outcome = ""

\* The fields of Fluxes that calculate_water_balance is to fill in.
OutputFields ==
    {"transpiration", "soil_evap", "interception", "erain", "et", "runoff",
     "gs_mol_m2_sec", "ga_mol_m2_sec", "omega"}

\* C12: from a clean Fluxes in which only gpp_gCm2, gpp_am, gpp_pm and wue
\* are filled in, a successful calculate_water_balance call has written every
\* output field, whatever the transpiration and assimilation models.
C12_FluxesPopulated ==
    BalanceDone => \A k \in OutputFields : fluxes[k] # Unset

\* The control values name no transpiration path of calculate_water_balance.
UnrecognizedControl ==
    \/ control.trans_model \notin {0, 1, 2}
    \/ control.trans_model = 1 /\ control.assim_model \notin {"BEWDY", "MATE"}

\* C13: with a trans_model outside {0, 1, 2}, or an assim_model outside
\* {BEWDY, MATE} under trans_model = 1, calculate_water_balance ends in an
\* error and does not go on to the storage update.
C13_UnrecognizedControlFatal ==
    (call.op = "calculate_water_balance" /\ UnrecognizedControl) => outcome # ""

\* ------------------------------------- soil water stress and the daily step
\*
\* A run as the rest of the model drives it: after initialise_parameters,
\* every day calculate_soil_water_fac is called, its result is stored in
\* State, growth writes the day's carbon uptake, and then
\* calculate_water_balance is called.

\* Soil types, layer depths [mm] and exponent qs of the sites; a layer of
\* depth 0 has no capacity.
SoilSites ==
    { [Params0 EXCEPT !.topsoil_type = c[1], !.rootsoil_type = c[2],
                      !.topsoil_depth = c[3], !.rooting_depth = c[4],
                      !.qs = c[5],
                      !.ctheta_topsoil = None, !.ntheta_topsoil = None,
                      !.ctheta_root = None, !.ntheta_root = None] :
        c \in {<<"clay_loam", "clay_loam", 350, 2000, FRAC \div 5>>,
               <<"sand", "clay", 450, 1500, FRAC>>,
               <<"clay_loam", "clay_loam", 0, 2000, FRAC \div 5>>,
               <<"sand", "clay", 450, 0, FRAC>>} }

SoilControlSet ==
    { [Control0 EXCEPT !.trans_model = c[1], !.sw_stress_model = c[2],
                       !.calc_sw_params = TRUE] :
        c \in {0, 1} \X {0, 1, 2} }

\* How full the reservoirs are at the start of a run, in percent of their
\* capacity.
FillSet == {0, 50, 100}

\* Forcing with no vapour pressure deficit in the morning, with a negative
\* deficit in the afternoon, and with no CO2.
MetDataNoVpd == [MetData0 EXCEPT !.vpd_am = [d \in Days |-> 0]]
MetDataNegVpd == [MetData0 EXCEPT !.vpd_pm = [d \in Days |-> 0 - 10]]
MetDataNoCo2 == [MetData0 EXCEPT !.co2 = [d \in Days |-> 0]]

InitSoil ==
    /\ control \in SoilControlSet
    /\ \E site \in SoilSites :
          params = initialise_parameters(control, site).params
    /\ \E fill \in FillSet :
          state = [State0 EXCEPT
                     !.pawater_topsoil = (params.wcapac_topsoil * fill) \div 100,
                     !.pawater_root = (params.wcapac_root * fill) \div 100]
    /\ fluxes = Fluxes0
    /\ met_data \in {MetData0, MetDataNoVpd, MetDataNegVpd, MetDataNoCo2}
    /\ day = 0
    /\ call = Call("initialise_parameters", <<>>)
    /\ ret = None
    /\ outcome = ""
    /\ objects = <<>>
    /\ instances = <<>>
    /\ sma = None

\* One call of calculate_soil_water_fac(): returns the pair of stress
\* factors and writes nothing.
CalculateSoilWaterFac ==
    /\ outcome = ""
    /\ day < MaxBalanceDay
    /\ call.op \in {"initialise_parameters", "calculate_water_balance"}
    /\ LET r == calculate_soil_water_fac(control, params, state)
       IN  /\ outcome' = r.err
           /\ ret' = IF r.err = "" THEN Some(<<r.wtfac_topsoil, r.wtfac_root>>)
                     ELSE None
    /\ call' = Call("calculate_soil_water_fac", <<>>)
    /\ UNCHANGED <<control, params, state, fluxes, met_data, day, objects, instances, sma>>

\* Carbon uptake of a day and of its halves, water use efficiency and leaf
\* area index that growth hands to the water balance.
GrowthSet ==
    { [gpp_gCm2 |-> c[1], gpp_am |-> c[2], gpp_pm |-> c[3], wue |-> c[4],
       lai |-> c[5]] :
        c \in { <<5 * GC, 2 * GC, 3 * GC, (5 * GC) \div 2, 2 * LAI>>,
                <<20 * GC, 10 * GC, 10 * GC, GC \div 5, 4 * LAI>> } }

\* The rest of the model stores the returned stress factors in State,
\* resets Fluxes and writes the day's growth.
HostGrowth ==
    /\ outcome = ""
    /\ call.op = "calculate_soil_water_fac"
    /\ \E h \in GrowthSet :
          /\ fluxes' = [FluxesClean EXCEPT !.gpp_gCm2 = h.gpp_gCm2,
                                          !.gpp_am = h.gpp_am,
                                          !.gpp_pm = h.gpp_pm, !.wue = h.wue]
          /\ state' = [state EXCEPT !.wtfac_topsoil = ret[1][1],
                                    !.wtfac_root = ret[1][2], !.lai = h.lai]
    /\ call' = Call("host", <<>>)
    /\ ret' = None
    /\ UNCHANGED <<control, params, met_data, day, outcome, objects, instances, sma>>

NextSoil == CalculateSoilWaterFac \/ HostGrowth \/ CalculateWaterBalance

SpecSoil == InitSoil /\ [][NextSoil]_vars

\* ------------------------------------------ claims on the soil water stress

\* The step that is being taken is a call of calculate_soil_water_fac.
IsSoilWaterFac == call'.op = "calculate_soil_water_fac"

\* The step evaluates the stomatal-conductance formula on a value outside
\* its domain: a Penman-Monteith day whose morning or afternoon vapour
\* pressure deficit is <= 0 or whose CO2 concentration is 0.
GsOutsideDomain ==
    /\ IsBalance
    /\ control.trans_model = 1
    /\ \/ met_data.vpd_am[day] <= 0
       \/ met_data.vpd_pm[day] <= 0
       \/ met_data.co2[day] = 0

\* The step divides the reservoirs by a capacity of 0.
SmcOutsideDomain ==
    /\ IsSoilWaterFac
    /\ params.wcapac_topsoil = 0 \/ params.wcapac_root = 0

\* C14: a call that evaluates the stomatal-conductance formula with
\* vpd <= 0 or ca = 0 on a Penman-Monteith path, or calculate_soil_water_fac
\* with a capacity of 0, ends in an error, and pawater_topsoil, pawater_root
\* and delta_sw_store keep the values they had before the call.
C14_DomainErrorsRaised ==
    [][(GsOutsideDomain \/ SmcOutsideDomain) =>
          /\ outcome' # ""
          /\ state'.pawater_topsoil = state.pawater_topsoil
          /\ state'.pawater_root = state.pawater_root
          /\ state'.delta_sw_store = state.delta_sw_store]_vars

\* A Penman-Monteith day with no vapour pressure deficit in the morning has
\* ended in a division by zero, on a site with water in both reservoirs.
C14_Witness ==
    /\ call.op = "calculate_water_balance"
    /\ control.trans_model = 1
    /\ met_data.vpd_am[day] = 0
    /\ outcome = "ZeroDivisionError"
    /\ state.pawater_topsoil > 0
    /\ state.pawater_root > 0

\* ----------------------------------------------- the set-up of SoilMoisture
\*
\* One call on a freshly constructed SoilMoisture: initialise_parameters, or
\* one of the two lookups with the soil type of a layer.

\* Which of ctheta_topsoil, ntheta_topsoil, ctheta_root, ntheta_root the
\* user has given (TRUE) and which are None: all, none, one layer's pair,
\* and single values.
GivenSet ==
    { <<TRUE, TRUE, TRUE, TRUE>>, <<FALSE, FALSE, FALSE, FALSE>>,
      <<FALSE, FALSE, TRUE, TRUE>>, <<TRUE, TRUE, FALSE, FALSE>>,
      <<FALSE, TRUE, TRUE, TRUE>>, <<TRUE, TRUE, TRUE, FALSE>> }

\* Landsberg-Waring parameters from a site calibration.
UserCtheta == 520
UserNtheta == 48

\* Parameters as read from the parameter file.
SetupSites ==
    { [Params0 EXCEPT
         !.topsoil_type = top, !.rootsoil_type = root,
         !.ctheta_topsoil = IF g[1] THEN Some(UserCtheta) ELSE None,
         !.ntheta_topsoil = IF g[2] THEN Some(UserNtheta) ELSE None,
         !.ctheta_root = IF g[3] THEN Some(UserCtheta) ELSE None,
         !.ntheta_root = IF g[4] THEN Some(UserNtheta) ELSE None] :
        top \in SoilTypes, root \in SoilTypes, g \in GivenSet }

InitSetup ==
    /\ control \in {[Control0 EXCEPT !.calc_sw_params = b] : b \in BOOLEAN}
    /\ params \in SetupSites
    /\ state = State0
    /\ fluxes = Fluxes0
    /\ met_data = MetData0
    /\ day = 0
    /\ call = Call("__init__", <<>>)
    /\ ret = None
    /\ outcome = ""
    /\ objects = <<>>
    /\ instances = <<>>
    /\ sma = None

\* One call of initialise_parameters().  sys.exit() ends the run, Parameters
\* staying as the call had left them.
InitialiseParameters ==
    /\ call.op = "__init__"
    /\ LET r == initialise_parameters(control, params)
       IN  /\ params' = r.params
           /\ outcome' = r.err
    /\ call' = Call("initialise_parameters", <<>>)
    /\ ret' = None
    /\ UNCHANGED <<control, state, fluxes, met_data, day, objects, instances, sma>>

\* One call of get_soil_fracs(soil_type) with the soil type of a layer.
GetSoilFracs ==
    /\ call.op = "__init__"
    /\ \E soil_type \in {params.topsoil_type, params.rootsoil_type} :
          LET r == get_soil_fracs(soil_type)
          IN  /\ ret' = r.ret
              /\ outcome' = r.err
              /\ call' = Call("get_soil_fracs", <<soil_type>>)
    /\ UNCHANGED <<control, params, state, fluxes, met_data, day, objects, instances, sma>>

\* One call of get_soil_params(soil_type) with the soil type of a layer.
GetSoilParams ==
    /\ call.op = "__init__"
    /\ \E soil_type \in {params.topsoil_type, params.rootsoil_type} :
          LET r == get_soil_params(soil_type)
          IN  /\ ret' = r.ret
              /\ outcome' = r.err
              /\ call' = Call("get_soil_params", <<soil_type>>)
    /\ UNCHANGED <<control, params, state, fluxes, met_data, day, objects, instances, sma>>

NextSetup == InitialiseParameters \/ GetSoilFracs \/ GetSoilParams

SpecSetup == InitSetup /\ [][NextSetup]_vars

\* --------------------------------------------------- claims on the set-up

\* The soil types in the table of get_soil_fracs and of get_soil_params.
FracTypes == SoilTypes \ {"silt", "peat"}
ParamTypes == SoilTypes \ {"peat"}

\* The step that is being taken is a call of initialise_parameters.
IsInitialise == call'.op = "initialise_parameters"

\* C15: get_soil_fracs and get_soil_params called with a soil type that is
\* not in their table end the run (sys.exit) and return nothing;
\* initialise_parameters with calc_sw_params set and a topsoil_type or
\* rootsoil_type that get_soil_fracs does not know ends the run before it
\* has written any of wcapac_*, theta_sat_*, b_* or psi_sat_*.
C15_UnknownSoilTypeFatal ==
    [][/\ (call'.op = "get_soil_fracs" /\ call'.args[1] \notin FracTypes)
            => (outcome' = "SystemExit" /\ ret' = None)
       /\ (call'.op = "get_soil_params" /\ call'.args[1] \notin ParamTypes)
            => (outcome' = "SystemExit" /\ ret' = None)
       /\ (/\ IsInitialise
           /\ control.calc_sw_params
           /\ \/ params.topsoil_type \notin FracTypes
              \/ params.rootsoil_type \notin FracTypes)
            => /\ outcome' = "SystemExit"
               /\ \A k \in {"wcapac_topsoil", "wcapac_root", "theta_sat_topsoil",
                            "theta_sat_root", "b_topsoil", "b_root",
                            "psi_sat_topsoil", "psi_sat_root"} :
                     params'[k] = params[k]]_vars

\* initialise_parameters with calc_sw_params has ended the run on a site
\* whose top soil type is known and whose root zone type is not, and the
\* top soil's parameters are still unset.
C15_Witness ==
    /\ call.op = "initialise_parameters"
    /\ control.calc_sw_params
    /\ params.topsoil_type = "clay"
    /\ params.rootsoil_type = "peat"
    /\ outcome = "SystemExit"
    /\ params.theta_sat_topsoil = None

\* The last call was calculate_soil_water_fac and it returned a pair.
SoilWaterFacDone == call.op = "calculate_soil_water_fac" /\ outcome = ""

\* C16: with stress model 0 or 1 and reservoirs within capacity, the pair
\* that calculate_soil_water_fac returns lies in [0, 1], and in a run that
\* alternates calculate_soil_water_fac and calculate_water_balance the
\* stress factors in State lie in [0, 1] on every day.
C16_StressBounds ==
    control.sw_stress_model \in {0, 1} =>
        /\ state.wtfac_topsoil \in 0..FRAC
        /\ state.wtfac_root \in 0..FRAC
        /\ SoilWaterFacDone => (ret[1][1] \in 0..FRAC /\ ret[1][2] \in 0..FRAC)

\* On the second day of a run with stress model 1 calculate_soil_water_fac
\* has returned factors strictly between 0 and 1 for both layers.
C16_Witness ==
    /\ SoilWaterFacDone
    /\ control.sw_stress_model = 1
    /\ day = 1
    /\ ret[1][1] > 0 /\ ret[1][1] < FRAC
    /\ ret[1][2] > 0 /\ ret[1][2] < FRAC

\* The Landsberg-Waring pair of a layer is unset.
PairUnset(c_theta, n_theta) == c_theta = None /\ n_theta = None

\* C17: after initialise_parameters has returned, each layer whose
\* ctheta/ntheta pair was None holds the pair that get_soil_params gives for
\* the layer's soil type, also when only one layer's pair was None.
C17_PairsDerived ==
    [][(IsInitialise /\ outcome' = "") =>
          /\ PairUnset(params.ctheta_topsoil, params.ntheta_topsoil) =>
                /\ get_soil_params(params.topsoil_type).err = ""
                /\ params'.ctheta_topsoil
                      = Some(get_soil_params(params.topsoil_type).ret[1][1])
                /\ params'.ntheta_topsoil
                      = Some(get_soil_params(params.topsoil_type).ret[1][2])
          /\ PairUnset(params.ctheta_root, params.ntheta_root) =>
                /\ get_soil_params(params.rootsoil_type).err = ""
                /\ params'.ctheta_root
                      = Some(get_soil_params(params.rootsoil_type).ret[1][1])
                /\ params'.ntheta_root
                      = Some(get_soil_params(params.rootsoil_type).ret[1][2])]_vars

\* ------------------------------------- the evaporation models, called alone
\*
\* One call of PenmanMonteith.calc_evaporation, Penman.calc_evaporation or
\* PriestleyTaylor.calc_evaporation with arguments from the sets below
\* (scales as in the PenmanMonteith section).

\* Vapour pressure deficit: none, 0.5 kPa and 1.5 kPa.
VpdSet == {0, 50, 150}

\* Stomatal conductance [m s-1, scale 10^5]: negative, zero, small, large.
GsSet == {0 - 100, 0, 50, 600}

\* Net radiation [MJ m-2 s-1, scale 10^7]: 0, 100, 200 and 400 W m-2.
NetRadSet == {0, 1000, 2000, 4000}

\* Air temperature [degC].
TavgSet == {5, 20}

\* Pressure [kPa, scale 10]: not given, and given.
PressSet == {None, Some(998)}

\* Canopy height [m, scale 10]: none, and 20 m.
CanhtSet == {0, 200}

\* Boundary layer conductance [m s-1, scale 10^5]: not given, and given.
GaSet == {None, Some(5000)}

\* Wind speed [m s-1, scale 10].
EvapWind == 25

\* Priestley-Taylor coefficient (scale 100): the default, 1 and 0.
PtCoeffSet == {126, 100, 0}

InitEvap ==
    /\ control = Control0
    /\ params = Params0
    /\ state = State0
    /\ fluxes = Fluxes0
    /\ met_data = MetData0
    /\ day = 0
    /\ call = Call("__init__", <<>>)
    /\ ret = None
    /\ outcome = ""
    /\ objects = <<>>
    /\ instances = <<>>
    /\ sma = None

\* One call of PenmanMonteith.calc_evaporation(vpd, wind, gs, net_rad, tavg,
\* press, canht, ga): returns the pair (et, omega).
PenmanMonteithCalcEvaporation ==
    /\ call.op = "__init__"
    /\ \E vpd \in VpdSet, gs \in GsSet, net_rad \in NetRadSet, tavg \in TavgSet,
          press \in PressSet, canht \in CanhtSet, ga \in GaSet :
          LET r == PenmanMonteith_calc_evaporation(
                       PenmanMonteith_init(params), vpd, EvapWind, gs, net_rad,
                       tavg, press, canht, ga)
          IN  /\ ret' = IF r.err = "" THEN Some(<<r.et, r.omega>>) ELSE None
              /\ outcome' = r.err
              /\ call' = Call("PenmanMonteith.calc_evaporation",
                              <<vpd, EvapWind, gs, net_rad, tavg, press, canht, ga>>)
    /\ UNCHANGED <<control, params, state, fluxes, met_data, day, objects, instances, sma>>

\* One call of Penman.calc_evaporation(net_rad, tavg, press).
PenmanCalcEvaporation ==
    /\ call.op = "__init__"
    /\ \E net_rad \in NetRadSet, tavg \in TavgSet, press \in PressSet :
          /\ ret' = Some(Penman_calc_evaporation(net_rad, tavg, press))
          /\ call' = Call("Penman.calc_evaporation", <<net_rad, tavg, press>>)
    /\ UNCHANGED <<control, params, state, fluxes, met_data, day, outcome, objects, instances, sma>>

\* One call of PriestleyTaylor.calc_evaporation(net_rad, tavg, press, pt_coeff).
PriestleyTaylorCalcEvaporation ==
    /\ call.op = "__init__"
    /\ \E net_rad \in NetRadSet, tavg \in TavgSet, press \in PressSet,
          pt_coeff \in PtCoeffSet :
          LET r == PriestleyTaylor_calc_evaporation(net_rad, tavg, press, pt_coeff)
          IN  /\ ret' = IF r.err = "" THEN Some(r.et) ELSE None
              /\ outcome' = r.err
              /\ call' = Call("PriestleyTaylor.calc_evaporation",
                              <<net_rad, tavg, press, pt_coeff>>)
    /\ UNCHANGED <<control, params, state, fluxes, met_data, day, objects, instances, sma>>

NextEvap ==
    \/ PenmanMonteithCalcEvaporation
    \/ PenmanCalcEvaporation
    \/ PriestleyTaylorCalcEvaporation

SpecEvap == InitEvap /\ [][NextEvap]_vars

\* ------------------------------------------ claims on the evaporation models

\* The last call was PenmanMonteith.calc_evaporation and it returned.
PenmanMonteithDone ==
    call.op = "PenmanMonteith.calc_evaporation" /\ outcome = ""

\* That call with another vapour pressure deficit or net radiation, every
\* other argument as it was.
PenmanMonteithWith(vpd, net_rad) ==
    PenmanMonteith_calc_evaporation(
        PenmanMonteith_init(params), vpd, call.args[2], call.args[3], net_rad,
        call.args[5], call.args[6], call.args[7], call.args[8])

\* The call had gs > 0, ga > 0 (given, or computed from wind and canopy
\* height) and vpd > 0.
OpenStomata ==
    /\ PenmanMonteithDone
    /\ call.args[3] > 0
    /\ call.args[8] # None => call.args[8][1] > 0
    /\ call.args[1] > 0

\* C18 as stated: for gs > 0, ga > 0 and vpd > 0 the evaporation that
\* PenmanMonteith.calc_evaporation returns is at least the one that
\* Penman.calc_evaporation returns for the same net radiation, temperature
\* and pressure.
C18_FullAboveEquilibrium ==
    OpenStomata =>
        ret[1][1] >= Penman_calc_evaporation(call.args[4], call.args[5],
                                             call.args[6])

\* C18, amended: for gs > 0, ga > 0 and vpd > 0 the evaporation that
\* PenmanMonteith.calc_evaporation returns is at least the one it returns
\* for vpd = 0 and the same other arguments: the term driven by the vapour
\* pressure deficit is not negative.
C18_VpdTermNonNegative ==
    OpenStomata => ret[1][1] >= PenmanMonteithWith(0, call.args[4]).et

\* A call with gs, ga, vpd and net_rad > 0 has returned more than it returns
\* without the vapour pressure deficit, and less than the equilibrium
\* evaporation.
C18_Witness ==
    /\ OpenStomata
    /\ call.args[4] > 0
    /\ ret[1][1] > PenmanMonteithWith(0, call.args[4]).et
    /\ ret[1][1] < Penman_calc_evaporation(call.args[4], call.args[5],
                                           call.args[6])

\* The net radiations of NetRadSet above r.
Above(r) == {r2 \in NetRadSet : r2 > r}

\* The last call was Penman.calc_evaporation.
PenmanDone == call.op = "Penman.calc_evaporation" /\ outcome = ""

\* The last call was PriestleyTaylor.calc_evaporation and it returned.
PriestleyTaylorDone ==
    call.op = "PriestleyTaylor.calc_evaporation" /\ outcome = ""

\* Each larger net radiation gives a larger evaporation than the last call
\* returned, from the same method with the other arguments unchanged.
LargerWithMoreRadiation ==
    /\ PenmanMonteithDone =>
          \A r2 \in Above(call.args[4]) :
              PenmanMonteithWith(call.args[1], r2).et > ret[1][1]
    /\ PenmanDone =>
          \A r2 \in Above(call.args[1]) :
              Penman_calc_evaporation(r2, call.args[2], call.args[3]) > ret[1]
    /\ PriestleyTaylorDone =>
          \A r2 \in Above(call.args[1]) :
              PriestleyTaylor_calc_evaporation(r2, call.args[2], call.args[3],
                                               call.args[4]).et > ret[1]

\* C19 as stated: with every other argument held fixed, a strictly larger
\* net_rad gives a strictly larger result from each of
\* PenmanMonteith.calc_evaporation, Penman.calc_evaporation and
\* PriestleyTaylor.calc_evaporation.
C19_NetRadMonotone == LargerWithMoreRadiation

\* C19, amended: a strictly larger net_rad gives a strictly larger result
\* from PenmanMonteith.calc_evaporation when gs > 0 and ga > 0, from
\* Penman.calc_evaporation, and from PriestleyTaylor.calc_evaporation when
\* pt_coeff > 0.
C19_NetRadMonotoneOpen ==
    (/\ PenmanMonteithDone =>
           (call.args[3] > 0 /\ (call.args[8] # None => call.args[8][1] > 0))
     /\ PriestleyTaylorDone => call.args[4] > 0)
    => LargerWithMoreRadiation

\* A Penman-Monteith call with gs > 0 and 100 W m-2 of net radiation has
\* returned a positive evaporation, smaller than the one for 200 W m-2.
C19_Witness ==
    /\ PenmanMonteithDone
    /\ call.args[3] > 0
    /\ call.args[4] = 1000
    /\ ret[1][1] > 0
    /\ PenmanMonteithWith(call.args[1], 2000).et > ret[1][1]

\* The last call was PenmanMonteith.calc_evaporation with gs <= 0.
ClosedStomata ==
    call.op = "PenmanMonteith.calc_evaporation" /\ call.args[3] <= 0

\* C20 as stated: for every gs <= 0, whatever the other arguments,
\* PenmanMonteith.calc_evaporation returns evaporation 0 and omega 0 (a
\* division by gs = 0 would raise ZeroDivisionError instead).
C20_ZeroConductance ==
    ClosedStomata => (outcome = "" /\ ret = Some(<<0, 0>>))

\* C20, amended: for every gs <= 0 a call of PenmanMonteith.calc_evaporation
\* that returns, returns evaporation 0 and omega 0, and it returns whenever
\* ga is given or the canopy height is positive.
C20_ZeroConductanceWithGa ==
    ClosedStomata =>
        /\ outcome = "" => ret = Some(<<0, 0>>)
        /\ (call.args[8] # None \/ call.args[7] > 0) => outcome = ""

\* A call with gs = 0, a vapour pressure deficit, net radiation and ga given
\* has returned 0 for both.
C20_Witness ==
    /\ ClosedStomata
    /\ call.args[3] = 0
    /\ call.args[1] > 0
    /\ call.args[4] > 0
    /\ call.args[8] # None
    /\ outcome = ""
    /\ ret = Some(<<0, 0>>)

\* ------------------------------------------------------- runs of two sites
\*
\* Two WaterBalance instances in one process.  Objects are held by
\* reference: objects maps the identity of an object to its value, and an
\* instance holds the identities of the objects it was built on.  Control,
\* Parameters and MetData are shared; the steps of the two sites interleave
\* in any order.

Sites == {1, 2}

\* WaterBalance.__init__(control, params, state, fluxes, met_data): the
\* instance keeps the references it is given.
WaterBalance_init_shared_fluxes(control_ref, params_ref, state_ref, fluxes_ref, met_data_ref) ==
    [control |-> control_ref, params |-> params_ref, state |-> state_ref,
     fluxes |-> "fluxes1", met_data |-> met_data_ref]

WaterBalance_init(control_ref, params_ref, state_ref, fluxes_ref, met_data_ref) ==
    [control |-> control_ref, params |-> params_ref, state |-> state_ref,
     fluxes |-> fluxes_ref, met_data |-> met_data_ref]

\* Identities of the State and Fluxes objects of a site.
StateOf(i) == IF i = 1 THEN "state1" ELSE "state2"
FluxesOf(i) == IF i = 1 THEN "fluxes1" ELSE "fluxes2"

\* State of a site at the start of its run: site 1 nearly full, site 2
\* nearly empty.
SiteStart(i) ==
    IF i = 1
    THEN [State0 EXCEPT !.pawater_topsoil = 40 * MM, !.pawater_root = 95 * MM]
    ELSE [State0 EXCEPT !.pawater_topsoil = 2 * MM, !.pawater_root = 3 * MM]

\* What the rest of the model hands to the step of day d at site i, and the
\* day length there (scale 2).
SiteInputs(i, d) ==
    [gpp_gCm2 |-> (4 + i + d) * GC, gpp_am |-> (2 + d) * GC,
     gpp_pm |-> (2 + i) * GC, wue |-> (i * GC) + GC \div 2,
     wtfac_topsoil |-> FRAC \div i, wtfac_root |-> FRAC \div (1 + d),
     lai |-> (i + d) * LAI]
SiteDaylen(i) == IF i = 1 THEN 24 ELSE 20

\* State and Fluxes of a site after the rest of the model has reset Fluxes
\* and written the inputs h.
HostWrites(s, f, h) ==
    [state  |-> [s EXCEPT !.wtfac_topsoil = h.wtfac_topsoil,
                          !.wtfac_root = h.wtfac_root, !.lai = h.lai],
     fluxes |-> [FluxesClean EXCEPT !.gpp_gCm2 = h.gpp_gCm2,
                                    !.gpp_am = h.gpp_am,
                                    !.gpp_pm = h.gpp_pm, !.wue = h.wue]]

InitSites ==
    /\ control \in ControlSet
    /\ params = Params0
    /\ state = State0
    /\ fluxes = Fluxes0
    /\ met_data \in {MetData0, MetDataNoPress}
    /\ day = 0
    /\ call = Call("__init__", <<>>)
    /\ ret = None
    /\ outcome = ""
    /\ objects = [id \in {"control", "params", "met_data", "state1", "fluxes1",
                          "state2", "fluxes2"} |->
                    CASE id = "control"  -> control
                      [] id = "params"   -> params
                      [] id = "met_data" -> met_data
                      [] id = "state1"   -> SiteStart(1)
                      [] id = "state2"   -> SiteStart(2)
                      [] OTHER           -> Fluxes0]
    /\ instances = [i \in Sites |->
                      [wb |-> WaterBalance_init("control", "params", StateOf(i),
                                                FluxesOf(i), "met_data"),
                       day |-> 0, pc |-> "idle", outcome |-> ""]]
    /\ sma = None

\* The rest of the model prepares the next day of site i.
SiteHost(i) ==
    /\ instances[i].pc = "idle"
    /\ instances[i].outcome = ""
    /\ instances[i].day < MaxBalanceDay
    /\ LET wb == instances[i].wb
           Written(w) == [objects EXCEPT ![wb.state] = w.state,
                                         ![wb.fluxes] = w.fluxes]
       IN  objects' = Written(HostWrites(objects[wb.state], objects[wb.fluxes],
                                         SiteInputs(i, instances[i].day)))
    /\ instances' = [instances EXCEPT ![i].pc = "host"]
    /\ call' = Call("host", <<i>>)
    /\ UNCHANGED <<control, params, state, fluxes, met_data, day, ret, outcome, sma>>

\* One call of calculate_water_balance(day, daylen) on the instance of
\* site i: it reads and writes the objects the instance refers to.
SiteCalculateWaterBalance(i) ==
    /\ instances[i].pc = "host"
    /\ LET wb == instances[i].wb
           Returned(r) ==
               /\ objects' = [objects EXCEPT ![wb.state] = r.state,
                                             ![wb.fluxes] = r.fluxes]
               /\ instances' = [instances EXCEPT
                                  ![i].pc = "idle",
                                  ![i].outcome = r.err,
                                  ![i].day = IF r.err = "" THEN @ + 1 ELSE @]
       IN  Returned(calculate_water_balance(
                        objects[wb.control], objects[wb.params],
                        objects[wb.state], objects[wb.fluxes],
                        objects[wb.met_data], instances[i].day, SiteDaylen(i)))
    /\ call' = Call("calculate_water_balance",
                    <<i, instances[i].day, SiteDaylen(i)>>)
    /\ UNCHANGED <<control, params, state, fluxes, met_data, day, ret, outcome, sma>>

NextSites ==
    \E i \in Sites : SiteHost(i) \/ SiteCalculateWaterBalance(i)

SpecSites == InitSites /\ [][NextSites]_vars

\* ------------------------------------------------ claims on runs of two sites

\* State and Fluxes of site i when its steps run alone: after k completed
\* days (Done), after the host has prepared day k (Hosted), and after the
\* call of day k (Called).
RECURSIVE Done(_, _)
Hosted(i, k) == HostWrites(Done(i, k).state, Done(i, k).fluxes, SiteInputs(i, k))
Called(i, k) ==
    calculate_water_balance(control, params, Hosted(i, k).state,
                            Hosted(i, k).fluxes, met_data, k, SiteDaylen(i))
Done(i, k) ==
    IF k = 0 THEN [state |-> SiteStart(i), fluxes |-> Fluxes0]
    ELSE [state |-> Called(i, k - 1).state, fluxes |-> Called(i, k - 1).fluxes]

\* State and Fluxes of site i at its present position, had it run alone.
Alone(i) ==
    IF instances[i].outcome # "" THEN
        [state |-> Called(i, instances[i].day).state,
         fluxes |-> Called(i, instances[i].day).fluxes]
    ELSE IF instances[i].pc = "host" THEN Hosted(i, instances[i].day)
    ELSE Done(i, instances[i].day)

\* C21: under every interleaving of the steps of two instances built on
\* distinct State and Fluxes objects, the State and Fluxes of each site are
\* what they are when the site's steps run alone, and the shared Control,
\* Parameters and MetData objects keep their values.
C21_SiteIndependence ==
    /\ \A i \in Sites :
          /\ objects[instances[i].wb.state] = Alone(i).state
          /\ objects[instances[i].wb.fluxes] = Alone(i).fluxes
    /\ objects["control"] = control
    /\ objects["params"] = params
    /\ objects["met_data"] = met_data

\* Site 2 has completed two days and site 1 one day and the preparation of
\* its second, every call having changed its site's reservoirs.
C21_Witness ==
    /\ instances[2].day = 2
    /\ instances[1].day = 1
    /\ instances[1].pc = "host"
    /\ objects["state1"].pawater_root # SiteStart(1).pawater_root
    /\ objects["state2"].pawater_root # SiteStart(2).pawater_root
    /\ objects["fluxes1"] # objects["fluxes2"]

\* ------------------------------------------------------------ str2boolean
\*
\* Python values handed to and returned by str2boolean: a type name and the
\* value written as a sequence of characters.

PyBool(b) == [type |-> "bool", v |-> IF b THEN <<"True">> ELSE <<"False">>]
PyInt(digits) == [type |-> "int", v |-> digits]
PyFloat(digits) == [type |-> "float", v |-> digits]
PyStr(chars) == [type |-> "str", v |-> chars]
PyNone == [type |-> "NoneType", v |-> <<>>]

\* str.lower(), character by character.
lower_char(c) ==
    CASE c = "A" -> "a" [] c = "E" -> "e" [] c = "F" -> "f" [] c = "L" -> "l"
      [] c = "R" -> "r" [] c = "S" -> "s" [] c = "T" -> "t" [] c = "U" -> "u"
      [] OTHER -> c
lower(chars) == [k \in 1..Len(chars) |-> lower_char(chars[k])]

\* str2boolean(value): the value and the exception raised, if any.  A
\* function that ends without a return statement returns None.
str2boolean(value) ==
    IF \/ value = PyBool(TRUE)
       \/ value = PyBool(FALSE)
       \/ value = PyInt(<<"0">>)
       \/ value = PyInt(<<"1">>)
    THEN [err |-> "", ret |-> value]
    ELSE IF value.type = "str" /\ value.v # <<>> THEN
        IF lower(value.v) \in {<<"t", "r", "u", "e">>, <<"t">>, <<"1">>}
        THEN [err |-> "", ret |-> PyBool(TRUE)]
        ELSE IF lower(value.v) \in {<<"f", "a", "l", "s", "e">>, <<"f">>, <<"0">>}
        THEN [err |-> "", ret |-> PyBool(FALSE)]
        ELSE [err |-> "", ret |-> PyNone]
    ELSE [err |-> "ValueError", ret |-> PyNone]

\* Inputs of the runs: every string of at most MaxStrLen characters of the
\* alphabet, the words in several cases, and values that are not strings.
MaxStrLen == 2
Alphabet == {"t", "T", "f", "F", "0", "1", "e", "E", "x", "y"}
RECURSIVE StringsOf(_)
StringsOf(n) ==
    IF n = 0 THEN {<<>>}
    ELSE StringsOf(n - 1) \cup
         {Append(w, c) : w \in {u \in StringsOf(n - 1) : Len(u) = n - 1},
                         c \in Alphabet}
Words ==
    {<<"t", "r", "u", "e">>, <<"T", "R", "U", "E">>, <<"T", "r", "u", "e">>,
     <<"f", "a", "l", "s", "e">>, <<"F", "A", "L", "S", "E">>,
     <<"F", "a", "l", "s", "e">>, <<"m", "a", "y", "b", "e">>}
ValueSet ==
    {PyStr(w) : w \in StringsOf(MaxStrLen) \cup Words}
    \cup {PyBool(TRUE), PyBool(FALSE), PyNone, PyInt(<<"0">>), PyInt(<<"1">>),
          PyInt(<<"2">>), PyFloat(<<"1", ".", "0">>)}

InitBoolean ==
    /\ control = Control0
    /\ params = Params0
    /\ state = State0
    /\ fluxes = Fluxes0
    /\ met_data = MetData0
    /\ day = 0
    /\ call = Call("__init__", <<>>)
    /\ ret = None
    /\ outcome = ""
    /\ objects = <<>>
    /\ instances = <<>>
    /\ sma = None

\* One call str2boolean(value).
Str2Boolean ==
    /\ \E value \in ValueSet :
          LET Returned(r) ==
                  /\ ret' = IF r.err = "" THEN Some(r.ret) ELSE None
                  /\ outcome' = r.err
          IN  /\ call' = Call("str2boolean", <<value>>)
              /\ Returned(str2boolean(value))
    /\ UNCHANGED <<control, params, state, fluxes, met_data, day, objects,
                   instances, sma>>

NextBoolean == Str2Boolean

SpecBoolean == InitBoolean /\ [][NextBoolean]_vars

\* ------------------------------------------------------ claims on str2boolean

\* The truth value an input stands for: True, False, 1, 0 and, in any case
\* of the letters, the strings true, t, 1 and false, f, 0.
StandsForTrue(value) ==
    \/ value \in {PyBool(TRUE), PyInt(<<"1">>)}
    \/ /\ value.type = "str"
       /\ lower(value.v) \in {<<"t", "r", "u", "e">>, <<"t">>, <<"1">>}
StandsForFalse(value) ==
    \/ value \in {PyBool(FALSE), PyInt(<<"0">>)}
    \/ /\ value.type = "str"
       /\ lower(value.v) \in {<<"f", "a", "l", "s", "e">>, <<"f">>, <<"0">>}

\* C22: str2boolean returns the truth value of a recognized input (True or
\* 1 for the true ones, False or 0 for the false ones) and raises ValueError
\* for every other input; it never returns anything else, such as None.
C22_BooleanOrValueError ==
    call.op = "str2boolean" =>
        IF StandsForTrue(call.args[1])
        THEN outcome = "" /\ ret \in {Some(PyBool(TRUE)), Some(PyInt(<<"1">>))}
        ELSE IF StandsForFalse(call.args[1])
        THEN outcome = "" /\ ret \in {Some(PyBool(FALSE)), Some(PyInt(<<"0">>))}
        ELSE outcome = "ValueError" /\ ret = None

\* ------------------------------------------------- root-zone mass balance

\* C23: on every call of update_water_storage whose root-zone value after
\* the raw update is strictly positive, the fluxes are left as they were
\* and delta_sw_store = erain - transpiration - soil_evap - runoff, runoff
\* being the returned value: the water entering the root zone is stored or
\* leaves as runoff.
C23_RootMassBalance ==
    [][(IsUpdate /\ RawRoot > 0)
         => /\ fluxes'.transpiration = fluxes.transpiration
            /\ fluxes'.soil_evap = fluxes.soil_evap
            /\ Some(fluxes'.erain - fluxes'.transpiration - fluxes'.soil_evap
                      - state'.delta_sw_store) = ret']_vars

\* 95 mm stored of 100, 10 mm of rain, 3 mm transpired and 1 mm evaporated:
\* 5 mm are stored and 1 mm runs off.
C23_Witness ==
    /\ call.op = "update_water_storage"
    /\ params.wcapac_root = 100 * MM
    /\ fluxes.erain = 10 * MM
    /\ fluxes.transpiration = 3 * MM
    /\ fluxes.soil_evap = 1 * MM
    /\ state.delta_sw_store = 5 * MM
    /\ ret = Some(1 * MM)

\* ------------------------------------------------- frame of the daily step

\* C24: a call of calculate_water_balance changes no field of State other
\* than pawater_topsoil, pawater_root and delta_sw_store (wtfac_topsoil,
\* wtfac_root, lai and canht keep their values) and leaves Params alone; a
\* call of calculate_soil_water_fac leaves State, Params and Fluxes as they
\* were and returns the pair; the daily step reads the stress factors that
\* State holds at the call: with a stored topsoil factor of 0 it evaporates
\* nothing from the soil.
C24_Frame ==
    [][/\ IsBalance =>
            /\ state' = [state EXCEPT
                           !.pawater_topsoil = state'.pawater_topsoil,
                           !.pawater_root = state'.pawater_root,
                           !.delta_sw_store = state'.delta_sw_store]
            /\ params' = params
            /\ ((outcome' = "" /\ state.wtfac_topsoil = 0)
                  => fluxes'.soil_evap = 0)
       /\ IsSoilWaterFac =>
            /\ state' = state
            /\ params' = params
            /\ fluxes' = fluxes
            /\ (outcome' = "" => ret' # None /\ Len(ret'[1]) = 2)]_vars

\* A daily step that changed both reservoirs while State held the stress
\* factors returned by calculate_soil_water_fac and stored by the host,
\* both strictly between 0 and 1.
C24_Witness ==
    /\ BalanceDone
    /\ day = 1
    /\ state.wtfac_topsoil > 0
    /\ state.wtfac_topsoil < FRAC
    /\ state.wtfac_root > 0
    /\ state.wtfac_root < FRAC
    /\ state.delta_sw_store # 0
    /\ state.pawater_topsoil # 0
    /\ fluxes.soil_evap > 0

\* ------------------------------------------------- runoff and drought

\* The drought correction of the step about to run fires: the test that
\* update_water_storage makes on the root-zone value left by the runoff
\* removal.
DroughtFires == float_le(RootAfterRunoff, 0)

IntNum(n) == [type |-> "int", num |-> n, den |-> 1]
FloatNum(n) == [type |-> "float", num |-> n, den |-> 1]

\* sum(data): an int when every term is an int, a float otherwise.
RECURSIVE SumNum(_)
SumNum(data) ==
    IF data = <<>> THEN 0 ELSE Head(data).num + SumNum(Tail(data))
AllInts(data) == \A k \in 1..Len(data) : data[k].type = "int"

\* sum(data) / data_length with the division of Python 2: floor division
\* of two ints, true division when the sum is a float.
Average(data) ==
    IF AllInts(data)
    THEN IntNum(SumNum(data) \div Len(data))
    ELSE [type |-> "float", num |-> SumNum(data), den |-> Len(data)]

\* SimpleMovingAverage.__init__(window_size, previous_state): the deque,
\* pre-filled with window_size copies of previous_state when it is given.
SimpleMovingAverage_init(window_size, previous_state) ==
    [window_size |-> window_size,
     data |-> IF previous_state # None
              THEN [k \in 1..window_size |-> previous_state[1]]
              ELSE <<>>]

\* SimpleMovingAverage.__call__(n): the instance after the call and the
\* average returned.
SimpleMovingAverage_call(self, n) ==
    LET appended == Append(self.data, n)
        data     == IF Len(appended) > self.window_size
                    THEN Tail(appended) ELSE appended
    IN  [self    |-> [self EXCEPT !.data = data],
         average |-> IF Len(data) = 0 THEN FloatNum(0) ELSE Average(data)]

\* SimpleMovingAverage.reset_stream().
SimpleMovingAverage_reset_stream(self) == [self EXCEPT !.data = <<>>]

\* Bound of the runs: values given to one instance since its construction
\* or its last reset, the pre-fill included.
MaxStream == 5
WindowSet == {1, 2, 3}
PreviousStateSet == {None, Some(IntNum(1)), Some(FloatNum(2))}
NumberSet == {IntNum(1), IntNum(2), FloatNum(1), FloatNum(4)}

\* sma holds the instance (self) and, for the claims, the values it has
\* been given since its construction or its last reset (stream).
InitAverage ==
    /\ control = Control0
    /\ params = Params0
    /\ state = State0
    /\ fluxes = Fluxes0
    /\ met_data = MetData0
    /\ day = 0
    /\ call = Call("__init__", <<>>)
    /\ ret = None
    /\ outcome = ""
    /\ objects = <<>>
    /\ instances = <<>>
    /\ \E window_size \in WindowSet, previous_state \in PreviousStateSet :
          LET Built(self) == sma = Some([self |-> self, stream |-> self.data])
          IN  Built(SimpleMovingAverage_init(window_size, previous_state))

\* One call sma(n).
MovingAverageCall ==
    /\ Len(sma[1].stream) < MaxStream
    /\ \E n \in NumberSet :
          LET Returned(r) ==
                  /\ sma' = Some([self |-> r.self,
                                  stream |-> Append(sma[1].stream, n)])
                  /\ ret' = Some(r.average)
          IN  /\ call' = Call("__call__", <<n>>)
              /\ Returned(SimpleMovingAverage_call(sma[1].self, n))
    /\ UNCHANGED <<control, params, state, fluxes, met_data, day, outcome,
                   objects, instances>>

\* One call sma.reset_stream().
ResetStream ==
    /\ call.op # "reset_stream"
    /\ sma' = Some([self |-> SimpleMovingAverage_reset_stream(sma[1].self),
                    stream |-> <<>>])
    /\ call' = Call("reset_stream", <<>>)
    /\ ret' = None
    /\ UNCHANGED <<control, params, state, fluxes, met_data, day, outcome,
                   objects, instances>>

NextAverage == MovingAverageCall \/ ResetStream

SpecAverage == InitAverage /\ [][NextAverage]_vars

\* ------------------------------------------- claims on SimpleMovingAverage

\* The last n values of a stream, or all of them when there are fewer.
LastOf(stream, n) ==
    SubSeq(stream, IF Len(stream) > n THEN Len(stream) - n + 1 ELSE 1,
           Len(stream))

\* The number a is the mean of the values of window.
IsMeanOf(a, window) == a.num * Len(window) = SumNum(window) * a.den

\* C26: the queue never holds more than window_size values; each call
\* returns the mean of the last window_size values of the stream made of
\* the pre-fill and the inputs so far, or of all of them when there are
\* fewer; after reset_stream the queue is empty, and the call that follows
\* returns its own argument.
C26_WindowMean ==
    /\ Len(sma[1].self.data) <= sma[1].self.window_size
    /\ call.op = "__call__" =>
          /\ ret # None
          /\ IsMeanOf(ret[1], LastOf(sma[1].stream, sma[1].self.window_size))
          /\ (Len(sma[1].stream) = 1 => IsMeanOf(ret[1], <<call.args[1]>>))
    /\ call.op = "reset_stream" => sma[1].self.data = <<>>

\* The same with the value returned taken as the code computes it,
\* sum(data) / data_length on the queue.
C26_WindowQuotient ==
    /\ Len(sma[1].self.data) <= sma[1].self.window_size
    /\ sma[1].self.data = LastOf(sma[1].stream, sma[1].self.window_size)
    /\ call.op = "__call__" =>
          /\ ret = Some(Average(LastOf(sma[1].stream, sma[1].self.window_size)))
          /\ (~AllInts(sma[1].self.data)
                => IsMeanOf(ret[1], LastOf(sma[1].stream,
                                           sma[1].self.window_size)))
          /\ (Len(sma[1].stream) = 1 => IsMeanOf(ret[1], <<call.args[1]>>))
    /\ call.op = "reset_stream" => sma[1].self.data = <<>>

====
